---- MODULE Spec2Model ----
(***************************************************************************)
(* A model of the request engine of the AV-98 Gemini client (av98.py):     *)
(* GeminiClient._go_to_gi and _fetch_over_network (pre-flight, redirect     *)
(* rules, status dispatch), _send_request with the TOFU trust store of      *)
(* _validate_cert, and the response cache (_is_cached, _add_to_cache,       *)
(* _trim_cache, _remove_from_cache), the history (_update_history, do_back, *)
(* do_forward) and the renderer _handle_gemtext.                            *)
(*                                                                         *)
(* One fetch is a sequence of steps separated by the points where the code *)
(* blocks on the outside world: the network (connect, response header) and *)
(* the user's answer to a prompt.  pc is the position of the fetch:        *)
(*   "idle"          no command is running (the cmd loop waits for input)  *)
(*   "connect"       _fetch_over_network(gi) is about to call _send_request*)
(*   "tofu_prompt"   _validate_cert waits at "Accept this new certificate?"*)
(*   "wait"          the request line was sent; f.readline() is pending    *)
(*   "redir_prompt"  waits at one of the "Follow ... redirect" prompts     *)
(*   "guard_prompt"  _fetch_over_network waits at the cross-domain prompt  *)
(*   "offer_prompt"  waits at "Reactivate previously used client cert"     *)
(*   "exited"        do_quit has run (sys.exit)                            *)
(*   "crashed"       an exception no handler catches ended the program     *)
(*   "raising"       the pre-flight raised; the handler of _go_to_gi is next*)
(*   "render"        a text/gemini body has been fetched; line 367 is next *)
(*   "rendered"      _handle_gemtext has returned                          *)
(*                                                                         *)
(* URLs are the numbers 1..n (the url string of a GeminiItem); file names, *)
(* hosts, addresses and certificate fingerprints are numbers as well.      *)
(* The clock only advances between commands (Tick).                        *)
(***************************************************************************)
EXTENDS Integers, Sequences, FiniteSets, TLC

\* ---------------------------------------------------------------- constants
\* av98.py:56-58
MAX_REDIRECTS == 5
MAX_CACHE_SIZE == 10
MAX_CACHE_AGE_SECS == 180

\* ---------------------------------------------------------------- bounds
\* URLs of the redirect world (Spec): enough for a chain of MAX_REDIRECTS
\* followed redirects and one more target.
NumURLs == 7
\* URLs of the cache world (SpecCache): one more than the cache can hold.
NumCacheURLs == 11
\* Spec: do_go is offered while the history is shorter than this.
MaxHist == 1
\* Spec: the server answers 31 only while the permanent-redirect map is
\* smaller than this.
MaxPerm == 1
\* URLs of the cache-age world (SpecCacheAge): three entries of different
\* ages and a url without an entry.
NumAgeURLs == 4
\* SpecCache, SpecCacheAge: temporary file names; a command is offered while
\* a name is left.  (A reload whose new entry is trimmed at once, all
\* timestamps being equal, can be repeated without end.)
MaxCacheFiles == 12
\* SpecCache, SpecCacheAge: visits that are not the first visit of a url
\* (a visited url typed again, reload).
MaxRevisits == 1
\* SpecTofu: do_go is offered while every row's count is below MaxCount and
\* the table has fewer rows than MaxRows.
MaxCount == 2
MaxRows == 3
\* urls of the link world
NumLinkURLs == 3
\* transient certificates generated in one session
MaxTransient == 2
\* requests made under one activation of an identity
MaxShown == 3
\* SpecNav: a command that appends to the history is offered while the
\* cursor is on one of the first MaxNavHist - 1 entries
MaxNavHist == 2
\* SpecNav: a command is offered while the next temporary file name is no
\* greater than this
MaxNavFiles == 3
\* SpecPerm: the server answers 31 only while the permanent-redirect map
\* is smaller than this
MaxNavPerm == 2
\* SpecRender: lines of a body
MaxLines == 4

\* SpecShow: a connection is accepted while the identity was shown fewer
\* than MaxShowShown times, the trust store has fewer than MaxShowRows rows
\* and every row's count is below MaxShowCount
MaxShowShown == 2
MaxShowRows == 2
MaxShowCount == 2

\* SpecSlot: requests made under one activation of an identity
MaxSlotShown == 2

\* Readings of the clock (time.time(), utcnow()), in seconds.
\* SpecCacheAge: entries reach the ages 179, 180 and 181.
AgeTimes == {0, 1, 2, MAX_CACHE_AGE_SECS + 1}
\* SpecCache: entries reach the ages 1, 180 and 181.
CacheTimes == {0, 1, MAX_CACHE_AGE_SECS + 1}
\* SpecTofu: the two readings are far apart.
TofuTimes == {0, MAX_CACHE_AGE_SECS + 1}

URLs == 1..NumURLs
CacheURLs == 1..NumCacheURLs
AgeURLs == 1..NumAgeURLs
AllURLs == 1..(IF NumURLs > NumCacheURLs THEN NumURLs ELSE NumCacheURLs)
\* URLs of the trust-store world (SpecTofu): one URL on each of two hosts.
TofuURLs == {1, 3}
\* _get_addresses(host, port): host 1 has two addresses, every other host one
Addresses(host) == IF host = 1 THEN {1, 2} ELSE {1}
Fingerprints == {1, 2}

\* GeminiItem.host of the item with this url (urlparse(url).hostname):
\* URLs 1,2 are on host 1, URLs 3,4 on host 2, and so on.  URL -u is URL u
\* with the scheme gopher instead of gemini.
Host(u) == ((IF u < 0 THEN -u ELSE u) + 1) \div 2

\* The url gemini://active/ : its host is the string "active", the key of
\* the slot of the active identity in self.client_certs.
ActiveURL == 199
ActiveName == Host(ActiveURL)

\* GeminiItem.scheme
Scheme(u) == IF u < 0 THEN "gopher" ELSE "gemini"

VARIABLES
    pc,                   \* position of the running command (see above)
    gi,                   \* the GeminiItem being fetched (local gi of _fetch_over_network)
    update_hist,          \* parameter update_hist of the running _go_to_gi
    new_gi,               \* redirect waiting for the user's answer: [url, perm]
    previous_redirectors, \* self.previous_redirectors
    permanent_redirects,  \* self.permanent_redirects (function on its key set)
    history,              \* self.history (GeminiItems)
    hist_index,           \* self.hist_index
    self_gi,              \* self.gi (NoItem for None)
    self_mime,            \* self.mime ("" for None)
    index,                \* self.index, self.lookup: the links of the page rendered last
    rendered,             \* the lines of the file idx_filename
    body,                 \* the local body of _go_to_gi at the call of _handle_gemtext (<<>> elsewhere)
    at_call,              \* what the running or failed _go_to_gi found when it was called
    tmp_filename,         \* self.tmp_filename (0 for "")
    options,              \* self.options: cache, tls_mode, auto_follow_redirects
    cache,                \* self.cache: url -> [mime, filename]
    cache_timestamps,     \* self.cache_timestamps: url -> time
    files,                \* temporary files that exist on disk
    now,                  \* the clock
    has_crypto,           \* _HAS_CRYPTOGRAPHY
    db,                   \* rows of table cert_cache, in insertion order
    cert_files,           \* fingerprints f with cert_cache/<f>.crt on disk
    peer,                 \* TOFU mode: host, address and certificate fingerprint of the open connection
    outcome,              \* how the last command ended
    chain,                \* urls requested since the last non-3x response of the current fetch (a set)
    redirects,            \* redirects followed since the last non-3x response of the current fetch
    last_cache_op,        \* what the last command did to the cache
    asked,                \* the GeminiItem the command passed to _go_to_gi, until a request is sent
    restricted,           \* self.restricted
    active,               \* self.client_certs["active"] (NoIdent for None, Missing: no such key)
    active_cert_domains,  \* self.active_cert_domains (a list of hosts)
    active_is_transient,  \* self.active_is_transient
    transient_certs_created, \* self.transient_certs_created (the names)
    client_certs,         \* self.client_certs without its key "active": host -> identity
    cert_disk             \* the identities whose .crt and .key files exist

vars == <<pc, gi, update_hist, new_gi, previous_redirectors, permanent_redirects,
          history, hist_index, self_gi, self_mime, index, rendered, body, at_call,
          tmp_filename, options, cache,
          cache_timestamps, files, now, has_crypto, db, cert_files, peer,
          outcome, chain, redirects, last_cache_op, asked, restricted, active,
          active_cert_domains, active_is_transient, transient_certs_created,
          client_certs, cert_disk>>

cache_vars == <<cache, cache_timestamps, files, tmp_filename, last_cache_op>>
tofu_vars == <<db, cert_files, peer>>
env_vars == <<options, has_crypto, now>>
nav_vars == <<history, hist_index, self_gi, self_mime, index, rendered, body, at_call>>
ident_vars == <<restricted, active, active_cert_domains, active_is_transient,
                transient_certs_created, client_certs, cert_disk>>

\* ---------------------------------------------------------------- helpers
Without(f, x) == [k \in DOMAIN f \ {x} |-> f[k]]
With(f, x, v) == [k \in DOMAIN f \cup {x} |-> IF k = x THEN v ELSE f[k]]
EmptyMap == [k \in {} |-> 0]

\* ---------------------------------------------------------------- cache
\* The cache operations work on cs = [cache, cache_timestamps, files].
CacheState == [cache |-> cache, cache_timestamps |-> cache_timestamps, files |-> files]

\* _validate_cache: the two assertions
_validate_cache(cs) ==
    /\ DOMAIN cs.cache = DOMAIN cs.cache_timestamps
    /\ \A u \in DOMAIN cs.cache : cs.cache[u].filename \in cs.files

\* _remove_from_cache without line 652
_remove_from_cache_KeepsTimestamp(cs, url) ==
    [cache |-> Without(cs.cache, url),
     cache_timestamps |-> cs.cache_timestamps,
     files |-> cs.files \ {cs.cache[url].filename}]

\* _remove_from_cache: pop both maps, unlink the file
_remove_from_cache(cs, url) ==
    [cache |-> Without(cs.cache, url),
     cache_timestamps |-> Without(cs.cache_timestamps, url),
     files |-> cs.files \ {cs.cache[url].filename}]

\* _is_cached without the test of line 644
_is_cached_NeverExpires(cs, url, t) ==
    [ret |-> url \in DOMAIN cs.cache, cs |-> cs]

\* _is_cached with >= in line 644
_is_cached_OffByOne(cs, url, t) ==
    IF url \notin DOMAIN cs.cache THEN [ret |-> FALSE, cs |-> cs]
    ELSE IF t - cs.cache_timestamps[url] >= MAX_CACHE_AGE_SECS
         THEN [ret |-> FALSE, cs |-> _remove_from_cache(cs, url)]
         ELSE [ret |-> TRUE, cs |-> cs]

\* _is_cached at clock reading t: the returned value and the cache afterwards
_is_cached(cs, url, t) ==
    IF url \notin DOMAIN cs.cache THEN [ret |-> FALSE, cs |-> cs]
    ELSE IF t - cs.cache_timestamps[url] > MAX_CACHE_AGE_SECS
         THEN [ret |-> FALSE, cs |-> _remove_from_cache(cs, url)]
         ELSE [ret |-> TRUE, cs |-> cs]

\* (t, u) tuples compare as Python tuples do
TupleLess(p, q) == p[1] < q[1] \/ (p[1] = q[1] /\ p[2] < q[2])

RECURSIVE SortTuples(_)
SortTuples(S) ==
    IF S = {} THEN <<>>
    ELSE LET m == CHOOSE p \in S : \A q \in S \ {p} : TupleLess(p, q)
         IN <<m>> \o SortTuples(S \ {m})

\* lru = [(t, u) for (u, t) in self.cache_timestamps.items()]; lru.sort()
Lru(cs) == SortTuples({<<cs.cache_timestamps[u], u>> : u \in DOMAIN cs.cache_timestamps})

\* the for loop of _trim_cache over lru[i:], with its break
RECURSIVE TrimLoop(_, _, _, _)
TrimLoop(cs, lru, i, t) ==
    IF i > Len(lru) THEN cs
    ELSE IF t - lru[i][1] > MAX_CACHE_AGE_SECS
         THEN TrimLoop(_remove_from_cache(cs, lru[i][2]), lru, i + 1, t)
         ELSE cs

\* _trim_cache without the loop of lines 675-680
_trim_cache_OldestOnly(cs, t) == _remove_from_cache(cs, Lru(cs)[1][2])

\* _trim_cache: drop the oldest entry, then the expired ones in lru order
_trim_cache(cs, t) ==
    LET lru == Lru(cs)
    IN TrimLoop(_remove_from_cache(cs, lru[1][2]), lru, 2, t)

\* _add_to_cache without lines 661-662
_add_to_cache_NoTrim(cs, url, mime, filename, t) ==
    [cache |-> With(cs.cache, url, [mime |-> mime, filename |-> filename]),
     cache_timestamps |-> With(cs.cache_timestamps, url, t),
     files |-> cs.files]

\* _add_to_cache at clock reading t (the file was written by the caller)
_add_to_cache(cs, url, mime, filename, t) ==
    LET ins == [cache |-> With(cs.cache, url, [mime |-> mime, filename |-> filename]),
                cache_timestamps |-> With(cs.cache_timestamps, url, t),
                files |-> cs.files]
    IN IF Cardinality(DOMAIN ins.cache) > MAX_CACHE_SIZE THEN _trim_cache(ins, t) ELSE ins

\* ---------------------------------------------------------------- trust store
\* the row with count 0
Row_CountZero(host, address, fingerprint, t) ==
    [hostname |-> host, address |-> address, fingerprint |-> fingerprint,
     first_seen |-> t, last_seen |-> t, count |-> 0]

\* the row (host, address, fingerprint, now, now, 1)
Row(host, address, fingerprint, t) ==
    [hostname |-> host, address |-> address, fingerprint |-> fingerprint,
     first_seen |-> t, last_seen |-> t, count |-> 1]

\* the SELECT without the address
CachedCerts_ByHost(d, host, address) ==
    {i \in 1..Len(d) : d[i].hostname = host}

\* SELECT ... WHERE hostname=? AND address=? : the rows' positions
CachedCerts(d, host, address) ==
    {i \in 1..Len(d) : d[i].hostname = host /\ d[i].address = address}

Min(S) == CHOOSE x \in S : \A y \in S : x <= y
Max(S) == CHOOSE x \in S : \A y \in S : x >= y

\* the loop breaking at the first row of the pair, whatever its fingerprint
MatchedRow_AnyFingerprint(d, host, address, fingerprint) ==
    Min(CachedCerts(d, host, address) \cup {Len(d) + 1}) % (Len(d) + 1)

\* the row at which the for loop of _validate_cert breaks (0: no match)
MatchedRow(d, host, address, fingerprint) ==
    LET m == {i \in CachedCerts(d, host, address) : d[i].fingerprint = fingerprint}
    IN IF m = {} THEN 0 ELSE Min(m)

\* most_frequent_cert after the whole loop ran (count > max_count, so the
\* first row with the largest count)
most_frequent_cert(d, host, address) ==
    LET c == CachedCerts(d, host, address)
        best == Min({i \in c : \A j \in c : d[j].count <= d[i].count})
    IN d[best].fingerprint

\* an INSERT where the UPDATE should be
TofuUpdate_InsertsAgain(d, host, address, fingerprint, t) ==
    Append(d, Row(host, address, fingerprint, t))

\* the UPDATE with count = 1
TofuUpdate_ResetsCount(d, host, address, fingerprint, t) ==
    [i \in 1..Len(d) |->
        IF d[i].hostname = host /\ d[i].address = address /\ d[i].fingerprint = fingerprint
        THEN [d[i] EXCEPT !.last_seen = t, !.count = 1]
        ELSE d[i]]

\* UPDATE cert_cache SET last_seen=?, count=? WHERE hostname, address, fingerprint
TofuUpdate(d, host, address, fingerprint, t) ==
    LET n == d[MatchedRow(d, host, address, fingerprint)].count + 1
    IN [i \in 1..Len(d) |->
        IF d[i].hostname = host /\ d[i].address = address /\ d[i].fingerprint = fingerprint
        THEN [d[i] EXCEPT !.last_seen = t, !.count = n]
        ELSE d[i]]

\* the INSERT replacing the rows of (host, address)
TofuInsert_ReplacesPair(d, host, address, fingerprint, t) ==
    SelectSeq(d, LAMBDA r : ~(r.hostname = host /\ r.address = address))
        \o <<Row(host, address, fingerprint, t)>>

\* INSERT INTO cert_cache VALUES (host, address, fingerprint, now, now, 1)
TofuInsert(d, host, address, fingerprint, t) ==
    Append(d, Row(host, address, fingerprint, t))

\* ---------------------------------------------------------------- items
NoItem == [url |-> 0, oid |-> 0, name |-> 0]

\* A GeminiItem is its url and its identity as a Python object (GeminiItem
\* defines no __eq__, so == on items is identity).  A new object gets the
\* smallest identity no live item has.
LiveOids == {history[i].oid : i \in 1..Len(history)} \cup {self_gi.oid}
NewOid == Min((1..(Cardinality(LiveOids) + 1)) \ LiveOids)
GeminiItem(url) == [url |-> url, oid |-> NewOid, name |-> 0]
\* GeminiItem(url, name): name 0 is the empty name
NamedItem(url, name) == [url |-> url, oid |-> NewOid, name |-> name]

\* gi.query(user_input): the url with the query replaced.  URL 2k-1 is a
\* path without a query, URL 2k the same path with the user's input as query.
Query(u) == IF u % 2 = 1 /\ u + 1 \in AllURLs THEN u + 1 ELSE u

\* tempfile.NamedTemporaryFile(delete=False): a name that does not exist
ReferencedFiles == files \cup {tmp_filename} \cup {cache[u].filename : u \in DOMAIN cache}
NewFile == Max(ReferencedFiles) + 1

\* ---------------------------------------------------------------- history
\* the slice that keeps the whole list
Prefix_Whole(h, n) == h

\* the Python slice h[0:n]
Prefix(h, n) == SubSeq(h, 1, IF n < Len(h) THEN n ELSE Len(h))

\* _update_history with the cursor set to len(self.history)
_update_history_CursorPastEnd(h, idx, item) ==
    IF h # <<>> /\ h[idx + 1] = item
    THEN [history |-> h, hist_index |-> idx]
    ELSE LET t == Prefix(h, idx + 1) \o <<item>>
         IN [history |-> t, hist_index |-> Len(t)]

\* _update_history
_update_history(h, idx, item) ==
    IF h # <<>> /\ h[idx + 1] = item
    THEN [history |-> h, hist_index |-> idx]
    ELSE LET t == Prefix(h, idx + 1) \o <<item>>
         IN [history |-> t, hist_index |-> Len(t) - 1]

\* ---------------------------------------------------------------- documents
\* A line of a text/gemini body, by what _handle_gemtext tests of it:
\* kind "fence" starts with ```, kind "link" starts with =>, kind "text" is
\* any other line.  What follows the => of a link line is its ref:
\*   "blank"    nothing but white space ("=>", "=>   ")
\*   "invalid"  a target urlparse cannot take apart: GeminiItem.__init__
\*              reads parsed.port, which raises ValueError for
\*              "gemini://host:x/"
\*   "url"      a target that resolves to url, and after it the name
\*              (0: no name)
Fence == [kind |-> "fence", ref |-> "none", url |-> 0, name |-> 0]
TextLine == [kind |-> "text", ref |-> "none", url |-> 0, name |-> 0]
BlankLink == [kind |-> "link", ref |-> "blank", url |-> 0, name |-> 0]
InvalidLink == [kind |-> "link", ref |-> "invalid", url |-> 0, name |-> 0]
LinkLine(url, name) == [kind |-> "link", ref |-> "url", url |-> url, name |-> name]

\* GeminiItem.from_map_line(line, origin_gi): the item, or an exception
\* (the assert of line 182, or the ValueError of urlparse)
from_map_line(line) ==
    [raised |-> line.ref # "url", item |-> [url |-> line.url, name |-> line.name]]

\* the label as the position of the line in the body
LinkLabel_LineNumber(idx, i) == i

\* len(self.index), read after the append
LinkLabel(idx, i) == Len(idx)

\* _format_geminiitem(index, gi): "[%d%s] %s" % (index, protocol, gi.name or gi.url)
_format_geminiitem(n, item) ==
    [kind |-> "item", label |-> n,
     protocol |-> IF Scheme(item.url) = "gemini" THEN "" ELSE Scheme(item.url),
     name |-> item.name,
     url |-> IF item.name # 0 THEN 0 ELSE item.url]

\* tmpf.write(line + "\n") in preformatted mode
Verbatim(line) == [kind |-> "verbatim", line |-> line]
\* the bullets, quotes, headings and paragraphs, filled and decorated
Formatted(line) == [kind |-> "formatted", line |-> line]

\* the loop of _handle_gemtext from line i on
RECURSIVE RenderLines(_, _, _, _, _)
RenderLines(lines, i, preformatted, idx, out) ==
    IF i > Len(lines) THEN [index |-> idx, rendered |-> out]
    ELSE LET line == lines[i] IN
         IF line.kind = "fence"
         THEN RenderLines(lines, i + 1, ~preformatted, idx, out)
         ELSE IF preformatted
         THEN RenderLines(lines, i + 1, preformatted, idx, Append(out, Verbatim(line)))
         ELSE IF line.kind = "link"
         THEN LET r == from_map_line(line)
                  idx2 == Append(idx, r.item)
              IN IF r.raised
                 THEN \* except: "Skipping possible link"
                      RenderLines(lines, i + 1, preformatted, idx, out)
                 ELSE RenderLines(lines, i + 1, preformatted, idx2,
                          Append(out, _format_geminiitem(LinkLabel(idx2, i), r.item)))
         ELSE RenderLines(lines, i + 1, preformatted, idx, Append(out, Formatted(line)))

\* _handle_gemtext(body, menu_gi): the new self.index and the lines written
\* to the new idx_filename
_handle_gemtext(b) == RenderLines(b, 1, FALSE, <<>>, <<>>)

\* The document the server of url serves in the worlds with a network: a
\* link to the next url, displayed under the name url.
Body(url) == <<LinkLine(url + 1, url)>>

\* The call of _go_to_gi a command makes: the caller's update_hist and what
\* the call finds, which is the current resource, the history and its
\* cursor, the link index, tmp_filename and the urls that have a cache
\* entry; cursor is self.hist_index when the command began (do_back and
\* do_forward move it before they call).  The call is open until a success
\* completes it; of a completed call only update_hist is kept.
NoCall ==
    [open |-> FALSE, update_hist |-> TRUE, gi |-> NoItem, mime |-> "", history |-> <<>>,
     hist_index |-> 0, cursor |-> 0, index |-> <<>>, tmp_filename |-> 0, cached |-> {}]
CallState(uh, idx) ==
    [open |-> TRUE, update_hist |-> uh, gi |-> self_gi, mime |-> self_mime,
     history |-> history, hist_index |-> idx, cursor |-> hist_index, index |-> index,
     tmp_filename |-> tmp_filename, cached |-> DOMAIN cache]
Completed(uh) == [NoCall EXCEPT !.update_hist = uh]

\* the handler of _go_to_gi, lines 365-374: text/gemini is rendered, any
\* other type is handed to an external program
\* what _handle_gemtext makes of the documents of the servers
Pages == [url \in AllURLs \cup {ActiveURL} |-> _handle_gemtext(Body(url))]
Handle(mime, url) ==
    IF mime = "text/gemini"
    THEN Pages[url]
    ELSE [index |-> index, rendered |-> rendered]

\* ---------------------------------------------------------------- identities
\* An identity is a (certfile, keyfile) pair; kind says where its files are:
\* transient_certs/<name>, client_certs/<name>, or a path the user gave.
NoIdent == [kind |-> "none", name |-> 0]
\* self.client_certs has no key "active" (it was popped)
Missing == [kind |-> "missing", name |-> 0]
Transient(n) == [kind |-> "transient", name |-> n]
Persistent(n) == [kind |-> "persistent", name |-> n]
External(n) == [kind |-> "external", name |-> n]

Range(q) == {q[i] : i \in 1..Len(q)}

\* The identity operations work on st = [active, active_cert_domains,
\* active_is_transient, client_certs, cert_disk].
IdentState ==
    [active |-> active, active_cert_domains |-> active_cert_domains,
     active_is_transient |-> active_is_transient, client_certs |-> client_certs,
     cert_disk |-> cert_disk]

\* _activate_client_cert(certfile, keyfile)
_activate_client_cert(st, ident) ==
    [st EXCEPT !.active = ident, !.active_cert_domains = <<>>]

\* host in self.client_certs: the hosts' keys and the key "active"
HasKey(st, host) ==
    IF host = ActiveName THEN st.active # Missing ELSE host \in DOMAIN st.client_certs

\* for domain in self.active_cert_domains: self.client_certs.pop(domain)
\* from position i on; slot: the key "active" is there; ok is FALSE when a
\* pop raised KeyError
RECURSIVE PopDomains(_, _, _, _)
PopDomains(cc, slot, doms, i) ==
    IF i > Len(doms) THEN [client_certs |-> cc, slot |-> slot, ok |-> TRUE]
    ELSE IF doms[i] = ActiveName
    THEN IF slot THEN PopDomains(cc, FALSE, doms, i + 1)
         ELSE [client_certs |-> cc, slot |-> slot, ok |-> FALSE]
    ELSE IF doms[i] \notin DOMAIN cc THEN [client_certs |-> cc, slot |-> slot, ok |-> FALSE]
    ELSE PopDomains(Without(cc, doms[i]), slot, doms, i + 1)

\* _deactivate_client_cert: the state it leaves, and whether it raised
\* (no key "active", os.remove of a missing file, pop of a missing host)
_deactivate_client_cert(st) ==
    IF ~st.active_is_transient
    THEN [st |-> [st EXCEPT !.active = NoIdent, !.active_cert_domains = <<>>],
          raised |-> FALSE]
    ELSE IF st.active \notin st.cert_disk
    THEN [st |-> st, raised |-> TRUE]
    ELSE LET removed == [st EXCEPT !.cert_disk = st.cert_disk \ {st.active}]
             popped == PopDomains(st.client_certs, TRUE, st.active_cert_domains, 1)
         IN IF ~popped.ok
            THEN [st |-> [removed EXCEPT !.client_certs = popped.client_certs,
                                         !.active = IF popped.slot THEN st.active
                                                    ELSE Missing],
                  raised |-> TRUE]
            ELSE [st |-> [removed EXCEPT !.client_certs = popped.client_certs,
                                         !.active = NoIdent,
                                         !.active_cert_domains = <<>>,
                                         !.active_is_transient = FALSE],
                  raised |-> FALSE]

\* the guard for any host the active identity was not shown to
GuardNeeded_ActiveOnly(host, st) ==
    st.active # NoIdent /\ host \notin Range(st.active_cert_domains)

\* line 386: are we crossing a domain boundary?
GuardNeeded(host, st) ==
    st.active_cert_domains # <<>> /\ host \notin Range(st.active_cert_domains)

\* line 406: suggest reactivating previous certs?
OfferNeeded(host, st) ==
    st.active = NoIdent /\ HasKey(st, host)

\* where _fetch_over_network(gi) first blocks, for the host of gi
AfterGuardPc(host, st) ==
    IF st.active = Missing THEN "raising"   \* self.client_certs["active"]: KeyError
    ELSE IF OfferNeeded(host, st) THEN "offer_prompt" ELSE "connect"
\* the pre-flight without the cross-domain guard
PreflightPc_NoGuard(host, st) == AfterGuardPc(host, st)
PreflightPc(host, st) ==
    IF GuardNeeded(host, st) THEN "guard_prompt" ELSE AfterGuardPc(host, st)

\* ---------------------------------------------------------------- the engine
NoRedirect == [url |-> 0, perm |-> FALSE]
NoPeer == [host |-> 0, address |-> 0, fingerprint |-> 0]
NoCacheOp == [op |-> "none", url |-> 0, removed |-> {}, age |-> 0]

\* the pre-flight without the lookup
ObeyPermanent_Ignore(url, fuel) == url

\* "Obey permanent redirects": _go_to_gi calls itself with the mapped url
\* until the url is no key of the map.  0: the recursion never ends
\* (the map has a cycle; Python raises RecursionError).
RECURSIVE ObeyPermanent(_, _)
ObeyPermanent(url, fuel) ==
    IF url \notin DOMAIN permanent_redirects THEN url
    ELSE IF fuel = 0 THEN 0
    ELSE ObeyPermanent(permanent_redirects[url], fuel - 1)

\* The command returns to the prompt with an exception caught in _go_to_gi
\* (or, for "crash", propagated to the cmd loop); nothing else changes.
Fail(kind) ==
    /\ pc' = "idle"
    /\ outcome' = kind
    /\ gi' = NoItem
    /\ new_gi' = NoRedirect
    /\ peer' = NoPeer

\* self.gi as it is assigned before the fetch has returned
GiDuringFetch_Early(it) == it

\* self.gi while _fetch_over_network runs: lines 376-378 come after it
GiDuringFetch(it) == self_gi

\* _go_to_gi(item, update_hist=uh, check_cache=cc) up to the point where it
\* blocks on the network, or to its end when the cache serves the item;
\* idx is self.hist_index at the call.
GoToGiAt(item, uh, cc, idx) ==
    LET restarted == item.url \in DOMAIN permanent_redirects
        target == ObeyPermanent(item.url, Cardinality(DOMAIN permanent_redirects))
        \* the restart is _go_to_gi(new_gi): a new item, default parameters
        it == IF restarted THEN NamedItem(target, item.name) ELSE item
        uh2 == IF restarted THEN TRUE ELSE uh
        cc2 == IF restarted THEN TRUE ELSE cc
        probe == IF cc2 /\ options.cache
                 THEN _is_cached(CacheState, it.url, now)
                 ELSE [ret |-> FALSE, cs |-> CacheState]
        h == IF uh2 THEN _update_history(history, idx, it)
             ELSE [history |-> history, hist_index |-> idx]
    IN /\ pc = "idle"
       /\ redirects' = 0
       /\ chain' = {}
       /\ asked' = item
       /\ UNCHANGED <<previous_redirectors, permanent_redirects, env_vars, tofu_vars,
                      tmp_filename, new_gi, ident_vars>>
       /\ IF target = 0
          THEN /\ pc' = "idle"
               /\ outcome' = "crash"
               /\ hist_index' = idx
               /\ at_call' = CallState(uh, idx)
               /\ UNCHANGED <<gi, update_hist, history, self_gi, self_mime, index,
                              rendered, body, cache, cache_timestamps, files,
                              last_cache_op>>
          ELSE IF probe.ret
          THEN \* mime, body, tmpfile = self._get_cached(gi.url); handle; update state
               /\ pc' = "idle"
               /\ outcome' = "cached"
               /\ self_gi' = it
               /\ self_mime' = cache[it.url].mime
               /\ \E shown \in {Handle(cache[it.url].mime, it.url)} :
                     /\ index' = shown.index
                     /\ rendered' = shown.rendered
               /\ UNCHANGED body
               /\ at_call' = Completed(uh)
               /\ history' = h.history
               /\ hist_index' = h.hist_index
               /\ last_cache_op' = [op |-> "hit", url |-> it.url, removed |-> {},
                                    age |-> now - cache_timestamps[it.url]]
               /\ UNCHANGED <<gi, update_hist, cache, cache_timestamps, files>>
          ELSE /\ pc' = PreflightPc(Host(it.url), IdentState)
               /\ outcome' = "running"
               /\ gi' = it
               /\ update_hist' = uh2
               /\ cache' = probe.cs.cache
               /\ cache_timestamps' = probe.cs.cache_timestamps
               /\ files' = probe.cs.files
               /\ last_cache_op' =
                    IF DOMAIN probe.cs.cache # DOMAIN cache
                    THEN [op |-> "expire", url |-> it.url, removed |-> {it.url},
                          age |-> now - cache_timestamps[it.url]]
                    ELSE NoCacheOp
               /\ hist_index' = idx
               /\ at_call' = CallState(uh, idx)
               /\ self_gi' = GiDuringFetch(it)
               /\ UNCHANGED <<history, self_mime, index, rendered, body>>

GoToGi(item, uh, cc) == GoToGiAt(item, uh, cc, hist_index)

\* do_go: self._go_to_gi(GeminiItem(line))
do_go(url) == GoToGi(GeminiItem(url), TRUE, TRUE)

\* default: the line is the number of an entry of the lookup table, a link
\* to url that is displayed as name: self._go_to_gi(self.lookup[n-1])
default(url, name) == GoToGi(NamedItem(url, name), TRUE, TRUE)

\* do_reload: self._go_to_gi(self.gi, check_cache=False)
do_reload ==
    /\ self_gi # NoItem
    /\ GoToGi(self_gi, TRUE, FALSE)

\* do_back: the cursor moves, then self._go_to_gi(gi, update_hist=False)
do_back ==
    /\ history # <<>>
    /\ hist_index # 0
    /\ GoToGiAt(history[hist_index], FALSE, TRUE, hist_index - 1)

\* do_forward: the cursor moves, then self._go_to_gi(gi, update_hist=False)
do_forward ==
    /\ history # <<>>
    /\ hist_index # Len(history) - 1
    /\ GoToGiAt(history[hist_index + 2], FALSE, TRUE, hist_index + 1)

\* time passes between two commands: the clock now reads t
Tick(t) ==
    /\ pc = "idle"
    /\ t > now
    /\ now' = t
    /\ UNCHANGED <<pc, gi, update_hist, new_gi, previous_redirectors, permanent_redirects,
                   nav_vars, cache_vars, options, has_crypto, tofu_vars, outcome,
                   chain, redirects, asked, ident_vars>>

\* s.sendall((gi.url + CRLF)): the request line is on the wire
Sent ==
    /\ pc' = "wait"
    /\ chain' = chain \cup {gi.url}
    /\ IF active # NoIdent
       THEN \* remember that we showed the current cert to this domain
            /\ active_cert_domains' = Append(active_cert_domains, Host(gi.url))
            /\ client_certs' = IF Host(gi.url) = ActiveName THEN client_certs
                               ELSE With(client_certs, Host(gi.url), active)
       ELSE UNCHANGED <<active_cert_domains, client_certs>>
    /\ asked' = NoItem
    /\ UNCHANGED <<gi, new_gi, outcome, restricted, active, active_is_transient,
                   transient_certs_created, cert_disk>>

\* _send_request: no address of the host accepts the connection (or the
\* lookup, or the handshake, fails): the exception ends the fetch
ConnectFails ==
    /\ pc = "connect"
    /\ Fail("error")
    /\ UNCHANGED <<update_hist, previous_redirectors, permanent_redirects, nav_vars,
                   cache_vars, env_vars, db, cert_files, chain, redirects, asked,
                   ident_vars>>

\* _send_request: connected to `address`, the server presents a certificate
\* with this fingerprint; `valid` is the outcome of the date and name checks
\* made when the cryptography module is there.  In TOFU mode _validate_cert
\* runs up to its prompt or to its end.
SendRequest(address, fingerprint, valid) ==
    LET host == Host(gi.url) IN
    /\ pc = "connect"
    /\ UNCHANGED <<update_hist, previous_redirectors, permanent_redirects, nav_vars,
                   cache_vars, env_vars, redirects>>
    /\ IF Scheme(gi.url) # "gemini"
       THEN \* gopher: self.options["gopher_proxy"] is None, rsplit raises
            Fail("error") /\ UNCHANGED <<db, cert_files, chain, ident_vars, asked>>
       ELSE IF active = Missing
       THEN \* self.client_certs["active"] (line 579): KeyError
            Fail("error") /\ UNCHANGED <<db, cert_files, chain, ident_vars, asked>>
       ELSE IF active # NoIdent /\ active \notin cert_disk
       THEN \* context.load_cert_chain raises
            Fail("error") /\ UNCHANGED <<db, cert_files, chain, ident_vars, asked>>
       ELSE IF options.tls_mode = "ca"
       THEN Sent /\ UNCHANGED tofu_vars
       ELSE IF has_crypto /\ ~valid
       THEN \* CertificateError
            Fail("error") /\ UNCHANGED <<db, cert_files, chain, ident_vars, asked>>
       ELSE IF CachedCerts(db, host, address) = {}
       THEN \* blindly trust the first certificate
            /\ db' = TofuInsert(db, host, address, fingerprint, now)
            /\ cert_files' = cert_files \cup {fingerprint}
            /\ peer' = [host |-> host, address |-> address, fingerprint |-> fingerprint]
            /\ Sent
       ELSE IF MatchedRow(db, host, address, fingerprint) # 0
       THEN /\ db' = TofuUpdate(db, host, address, fingerprint, now)
            /\ peer' = [host |-> host, address |-> address, fingerprint |-> fingerprint]
            /\ Sent /\ UNCHANGED cert_files
       ELSE IF has_crypto /\ most_frequent_cert(db, host, address) \notin cert_files
       THEN \* open(most_frequent_cert + ".crt") raises FileNotFoundError
            Fail("error") /\ UNCHANGED <<db, cert_files, chain, ident_vars, asked>>
       ELSE /\ pc' = "tofu_prompt"
            /\ peer' = [host |-> host, address |-> address, fingerprint |-> fingerprint]
            /\ UNCHANGED <<gi, new_gi, outcome, db, cert_files, chain, ident_vars, asked>>

\* the answer to "Accept this new certificate? Y/N"
TofuAnswer(accept) ==
    /\ pc = "tofu_prompt"
    /\ UNCHANGED <<update_hist, previous_redirectors, permanent_redirects, nav_vars,
                   cache_vars, env_vars, redirects>>
    /\ IF accept
       THEN /\ db' = TofuInsert(db, peer.host, peer.address, peer.fingerprint, now)
            /\ IF has_crypto
               THEN /\ cert_files' = cert_files \cup {peer.fingerprint}
                    /\ Sent /\ UNCHANGED peer
               ELSE \* certdir is only bound when _HAS_CRYPTOGRAPHY: the open()
                    \* after the commit raises UnboundLocalError
                    /\ Fail("error")
                    /\ UNCHANGED <<cert_files, chain, ident_vars, asked>>
       ELSE \* raise Exception("TOFU Failure!")
            /\ Fail("error")
            /\ UNCHANGED <<db, cert_files, chain, ident_vars, asked>>

\* the exception the pre-flight of _fetch_over_network raised reaches the
\* handler of _go_to_gi (lines 343-362)
Raise ==
    /\ pc = "raising"
    /\ Fail("error")
    /\ UNCHANGED <<update_hist, previous_redirectors, permanent_redirects, nav_vars,
                   cache_vars, env_vars, db, cert_files, chain, redirects, asked,
                   ident_vars>>

\* header missing, without newline, or status/meta malformed: RuntimeError
\* before the redirect state is touched
InvalidHeader ==
    /\ pc = "wait"
    /\ Fail("error")
    /\ UNCHANGED <<update_hist, previous_redirectors, permanent_redirects, nav_vars,
                   cache_vars, env_vars, db, cert_files, chain, redirects, asked,
                   ident_vars>>

\* status 4x, 5x or undefined, or a 2x header naming an unknown charset or
\* a body that does not decode: the redirect state is reset, then RuntimeError
ResponseFailure ==
    /\ pc = "wait"
    /\ previous_redirectors' = {}
    /\ Fail("error")
    /\ redirects' = 0
    /\ chain' = {}
    /\ UNCHANGED <<update_hist, permanent_redirects, nav_vars, cache_vars, env_vars,
                   db, cert_files, asked, ident_vars>>

\* status 1x: the user's input becomes the query and the request restarts
\* with _fetch_over_network(gi.query(user_input))
ResponseInput ==
    /\ pc = "wait"
    /\ previous_redirectors' = {}
    /\ gi' = GeminiItem(Query(gi.url))
    /\ pc' = PreflightPc(Host(Query(gi.url)), IdentState)
    /\ redirects' = 0
    /\ chain' = {}
    /\ UNCHANGED <<update_hist, new_gi, permanent_redirects, nav_vars, cache_vars,
                   env_vars, tofu_vars, outcome, asked, ident_vars>>

\* lines 473-479: the redirect is followed
Follow(url, perm) ==
    /\ previous_redirectors' = previous_redirectors \cup {gi.url}
    /\ permanent_redirects' =
         IF perm THEN With(permanent_redirects, gi.url, url) ELSE permanent_redirects
    /\ gi' = GeminiItem(url)
    /\ pc' = PreflightPc(Host(url), IdentState)
    /\ redirects' = redirects + 1
    /\ new_gi' = NoRedirect
    /\ UNCHANGED <<outcome, chain, peer>>

\* RedirectError without the test of line 455
RedirectError_NoLoopCheck(url) ==
    IF url = gi.url THEN "redirects_to_itself"
    ELSE IF Cardinality(previous_redirectors) = MAX_REDIRECTS THEN "too_many_redirects"
    ELSE "none"

\* RedirectError without the test of line 457
RedirectError_NoLimit(url) ==
    IF url = gi.url THEN "redirects_to_itself"
    ELSE IF url \in previous_redirectors THEN "redirect_loop"
    ELSE "none"

\* lines 453-458: the reason to refuse a redirect to `url` ("none": follow)
RedirectError(url) ==
    IF url = gi.url THEN "redirects_to_itself"
    ELSE IF url \in previous_redirectors THEN "redirect_loop"
    ELSE IF Cardinality(previous_redirectors) = MAX_REDIRECTS THEN "too_many_redirects"
    ELSE "none"

RedirectErrors == {"redirects_to_itself", "redirect_loop", "too_many_redirects"}

\* lines 459-470: does the redirect need the user's consent?
NeedsConsent_IgnoresScheme(url) ==
    \/ Host(url) # Host(gi.url)
    \/ ~options.auto_follow_redirects

NeedsConsent(url) ==
    \/ Host(url) # Host(gi.url)
    \/ Scheme(url) # Scheme(gi.url)
    \/ ~options.auto_follow_redirects

\* the permanent-redirect map has, or has room for, an entry for the url
\* being fetched while it is bounded to n entries
PermRoom(n) == Cardinality(DOMAIN permanent_redirects \cup {gi.url}) <= n

\* status 3x with meta resolving to `url`; perm: the status is 31
ResponseRedirect(url, perm) ==
    /\ pc = "wait"
    /\ UNCHANGED <<update_hist, nav_vars, cache_vars, env_vars, db, cert_files, asked,
                   ident_vars>>
    /\ IF RedirectError(url) # "none"
       THEN /\ Fail(RedirectError(url))
            /\ UNCHANGED <<previous_redirectors, permanent_redirects, chain,
                           redirects>>
       ELSE IF NeedsConsent(url)
       THEN /\ pc' = "redir_prompt"
            /\ new_gi' = [url |-> url, perm |-> perm]
            /\ UNCHANGED <<gi, previous_redirectors, permanent_redirects, outcome,
                           chain, redirects, peer>>
       ELSE Follow(url, perm)

\* the answer to "Follow ... redirect to ...? (y/n)"
RedirectAnswer(yes) ==
    /\ pc = "redir_prompt"
    /\ UNCHANGED <<update_hist, nav_vars, cache_vars, env_vars, db, cert_files, asked,
                   ident_vars>>
    /\ IF yes
       THEN Follow(new_gi.url, new_gi.perm)
       ELSE \* raise UserAbortException()
            /\ Fail("abort")
            /\ UNCHANGED <<previous_redirectors, permanent_redirects, chain,
                           redirects>>

MimeTypes == {"text/gemini"}

\* status 2x: the body is written to a new temporary file, cached if the
\* cache is on, and _go_to_gi records the item as current and in the history
ResponseSuccess(mime) ==
    LET f == NewFile
        written == [cache |-> cache, cache_timestamps |-> cache_timestamps,
                    files |-> files \cup {f}]
        cs == IF options.cache THEN _add_to_cache(written, gi.url, mime, f, now)
              ELSE written
        h == IF update_hist THEN _update_history(history, hist_index, gi)
             ELSE [history |-> history, hist_index |-> hist_index]
    IN /\ pc = "wait"
       /\ previous_redirectors' = {}
       /\ tmp_filename' = f
       /\ cache' = cs.cache
       /\ cache_timestamps' = cs.cache_timestamps
       /\ files' = cs.files
       /\ last_cache_op' =
            IF options.cache
            THEN [op |-> "add", url |-> gi.url,
                  removed |-> (DOMAIN cache \cup {gi.url}) \ DOMAIN cs.cache, age |-> 0]
            ELSE NoCacheOp
       /\ self_gi' = gi
       /\ self_mime' = mime
       /\ \E shown \in {Handle(mime, gi.url)} :
             /\ index' = shown.index
             /\ rendered' = shown.rendered
       /\ UNCHANGED body
       /\ at_call' = Completed(at_call.update_hist)
       /\ history' = h.history
       /\ hist_index' = h.hist_index
       /\ pc' = "idle"
       /\ outcome' = "ok"
       /\ gi' = NoItem
       /\ peer' = NoPeer
       /\ UNCHANGED <<update_hist, new_gi, permanent_redirects, env_vars, db, cert_files,
                      chain, redirects, asked, ident_vars>>

\* header.strip().split(maxsplit=1) of the header line "<status> <meta>\r\n";
\* meta "" is the header with nothing, or only white space, after the status
SplitHeader(status, meta) == IF meta = "" THEN <<status>> ELSE <<status, meta>>

\* lines 497-500: the type named by the meta of a 2x header
MimeOf(meta) == IF meta = "" THEN "text/gemini" ELSE meta

Metas == {"", "text/gemini", "text/plain"}

\* a header with status 20 and this meta arrives
Response2x(meta) ==
    IF Len(SplitHeader("20", meta)) # 2
    THEN \* status, meta = header.split(maxsplit=1) raises ValueError
         InvalidHeader
    ELSE ResponseSuccess(MimeOf(meta))

\* Everything but the identity state and the position in the fetch.
rest_vars == <<update_hist, previous_redirectors, permanent_redirects, nav_vars,
               cache_vars, env_vars, db, cert_files, chain, redirects, asked,
               restricted, transient_certs_created>>

\* The identity state becomes st.
SetIdent(st) ==
    /\ active' = st.active
    /\ active_cert_domains' = st.active_cert_domains
    /\ active_is_transient' = st.active_is_transient
    /\ client_certs' = st.client_certs
    /\ cert_disk' = st.cert_disk

\* The answers to a y/n prompt the code tells apart at the cross-domain guard.
Answers == {"y", "n", "other"}

\* the answer to the prompt of the cross-domain guard (lines 384-403)
GuardAnswer(resp) ==
    LET host == Host(gi.url)
        d == _deactivate_client_cert(IdentState)
    IN /\ pc = "guard_prompt"
       /\ UNCHANGED rest_vars
       /\ IF active_is_transient
          THEN IF resp = "y"
               THEN /\ SetIdent(d.st)
                    /\ IF d.raised
                       THEN Fail("error")
                       ELSE /\ pc' = AfterGuardPc(host, d.st)
                            /\ UNCHANGED <<gi, new_gi, outcome, peer>>
               ELSE \* print("Well, okay then."); raise UserAbortException()
                    Fail("abort") /\ UNCHANGED ident_vars
          ELSE IF resp = "n"
               THEN \* print("Keeping certificate active for ...")
                    /\ pc' = AfterGuardPc(host, IdentState)
                    /\ UNCHANGED <<gi, new_gi, outcome, peer, ident_vars>>
               ELSE \* print("Deactivating certificate.")
                    /\ SetIdent(d.st)
                    /\ pc' = AfterGuardPc(host, d.st)
                    /\ UNCHANGED <<gi, new_gi, outcome, peer>>

\* self.client_certs.pop(gi.host) (line 413)
ForgetHost_KeepsEntry(cc, host) == cc
ForgetHost(cc, host) == Without(cc, host)

\* the answer to "Reactivate previously used certificate?" (lines 405-413)
OfferAnswer(yes) ==
    LET host == Host(gi.url)
    IN /\ pc = "offer_prompt"
       /\ UNCHANGED rest_vars
       /\ IF host = ActiveName
          THEN \* the key of the host is the slot, which holds None
               IF yes
               THEN \* _activate_client_cert(*None): TypeError
                    /\ Fail("error")
                    /\ UNCHANGED <<active, active_cert_domains, active_is_transient,
                                   client_certs, cert_disk>>
               ELSE \* self.client_certs.pop("active")
                    /\ pc' = "connect"
                    /\ active' = Missing
                    /\ UNCHANGED <<gi, new_gi, outcome, peer, active_cert_domains,
                                   active_is_transient, client_certs, cert_disk>>
          ELSE /\ pc' = "connect"
               /\ UNCHANGED <<gi, new_gi, outcome, peer>>
               /\ IF yes
                  THEN SetIdent(_activate_client_cert(IdentState, client_certs[host]))
                  ELSE /\ client_certs' = ForgetHost(client_certs, host)
                       /\ UNCHANGED <<active, active_cert_domains, active_is_transient,
                                      cert_disk>>

\* the handler without the test of self.restricted
CertRequired_Unrestricted ==
    /\ pc = "wait"
    /\ previous_redirectors' = {}
    /\ Fail("name_error")
    /\ redirects' = 0
    /\ chain' = {}
    /\ UNCHANGED <<update_hist, permanent_redirects, nav_vars, cache_vars, env_vars,
                   db, cert_files, asked, ident_vars>>

\* status 6x: self._handle_cert_request(meta); return self._fetch_over_network(gi).
\* In restricted mode the handler raises UserAbortException ("abort").
\* Otherwise it reads `status`, a name that is neither a local nor a global
\* of the function: NameError ("name_error"), reported by _go_to_gi as
\* any other exception, before a choice is offered.
CertRequired ==
    /\ pc = "wait"
    /\ previous_redirectors' = {}
    /\ Fail(IF restricted THEN "abort" ELSE "name_error")
    /\ redirects' = 0
    /\ chain' = {}
    /\ UNCHANGED <<update_hist, permanent_redirects, nav_vars, cache_vars, env_vars,
                   db, cert_files, asked, ident_vars>>

\* An identity command between two fetches: only the identity state and the
\* transient names change.
IdentityCommand ==
    /\ pc = "idle"
    /\ UNCHANGED <<gi, update_hist, new_gi, previous_redirectors, permanent_redirects,
                   nav_vars, cache_vars, env_vars, tofu_vars, outcome, chain,
                   redirects, asked, restricted>>

\* _generate_transient_cert_cert with uuid name n.  Its one call site is
\* choice 2 of _handle_cert_request.
_generate_transient_cert_cert(n) ==
    /\ IdentityCommand
    /\ ~restricted
    /\ n \notin transient_certs_created
    /\ SetIdent([_activate_client_cert(IdentState, Transient(n))
                    EXCEPT !.cert_disk = cert_disk \cup {Transient(n)},
                           !.active_is_transient = TRUE])
    /\ transient_certs_created' = transient_certs_created \cup {Transient(n).name}
    /\ pc' = pc

\* do_cert, choice 1: self._deactivate_client_cert().  An exception raised
\* here is not caught by the command loop.
do_cert_deactivate ==
    LET d == _deactivate_client_cert(IdentState)
    IN /\ IdentityCommand
       /\ ~restricted
       /\ SetIdent(d.st)
       /\ pc' = IF d.raised THEN "crashed" ELSE pc
       /\ UNCHANGED transient_certs_created

\* do_cert, choice 2: _generate_persistent_client_cert with the name n
do_cert_generate(n) ==
    /\ IdentityCommand
    /\ ~restricted
    /\ SetIdent([_activate_client_cert(IdentState, Persistent(n))
                    EXCEPT !.cert_disk = cert_disk \cup {Persistent(n)}])
    /\ UNCHANGED <<pc, transient_certs_created>>

\* do_cert, choice 3: _choose_client_cert picks a certificate of client_certs/
do_cert_choose(n) ==
    /\ IdentityCommand
    /\ ~restricted
    /\ Persistent(n) \in cert_disk
    /\ SetIdent(_activate_client_cert(IdentState, Persistent(n)))
    /\ UNCHANGED <<pc, transient_certs_created>>

\* do_cert, choice 4: _load_client_cert with the paths of existing files
do_cert_load(n) ==
    /\ IdentityCommand
    /\ ~restricted
    /\ External(n) \in cert_disk
    /\ SetIdent(_activate_client_cert(IdentState, External(n)))
    /\ UNCHANGED <<pc, transient_certs_created>>

\* do_quit: _empty_cache() unlinks the file of every cache entry, then the
\* temporary file and the files of the transient certificates created go;
\* sys.exit().  The maps of the object are left as they are.
do_quit ==
    /\ pc = "idle"
    /\ pc' = "exited"
    /\ files' = files \ ({cache[u].filename : u \in DOMAIN cache} \cup {tmp_filename})
    /\ cert_disk' = cert_disk \ {Transient(n) : n \in transient_certs_created}
    /\ UNCHANGED <<gi, update_hist, new_gi, previous_redirectors, permanent_redirects,
                   nav_vars, cache, cache_timestamps, tmp_filename, last_cache_op,
                   env_vars, tofu_vars, outcome, chain, redirects, asked, restricted,
                   active, active_cert_domains, active_is_transient,
                   transient_certs_created, client_certs>>

\* ---------------------------------------------------------------- specifications
InitCommon ==
    /\ pc = "idle"
    /\ gi = NoItem
    /\ update_hist = TRUE
    /\ new_gi = NoRedirect
    /\ previous_redirectors = {}
    /\ permanent_redirects = EmptyMap
    /\ history = <<>>
    /\ hist_index = 0
    /\ self_gi = NoItem
    /\ self_mime = ""
    /\ index = <<>>
    /\ rendered = <<>>
    /\ body = <<>>
    /\ at_call = NoCall
    /\ tmp_filename = 0
    /\ cache = EmptyMap
    /\ cache_timestamps = EmptyMap
    /\ files = {}
    /\ now = 0
    /\ db = <<>>
    /\ cert_files = {}
    /\ peer = NoPeer
    /\ outcome = "none"
    /\ chain = {}
    /\ redirects = 0
    /\ last_cache_op = NoCacheOp
    /\ asked = NoItem
    /\ active_cert_domains = <<>>
    /\ active_is_transient = FALSE
    /\ transient_certs_created = {}
    /\ client_certs = EmptyMap

\* The redirect world: certificates are checked against the CAs
\* (set tls_mode ca), the cache is off (the default).
Init ==
    /\ InitCommon
    /\ restricted = FALSE
    /\ active = NoIdent
    /\ cert_disk = {}
    /\ has_crypto = FALSE
    /\ \E a \in BOOLEAN :
         options = [cache |-> FALSE, tls_mode |-> "ca", auto_follow_redirects |-> a]

\* The redirect targets the servers of the redirect world name at `url`:
\* the url itself, the first url, and the next url.
RedirectTargets(url) == {url, 1} \cup ({url + 1} \cap URLs)

\* The urls the user types in the redirect world.
StartURLs == {1, 2}

Next ==
    \/ \E u \in StartURLs : Len(history) < MaxHist /\ do_go(u)
    \/ ConnectFails
    \/ SendRequest(1, 1, TRUE)
    \/ InvalidHeader
    \/ ResponseFailure
    \/ ResponseInput
    \/ \E u \in RedirectTargets(gi.url), p \in BOOLEAN :
          pc = "wait" /\ (p => PermRoom(MaxPerm)) /\ ResponseRedirect(u, p)
    \/ \E y \in BOOLEAN : RedirectAnswer(y)
    \/ \E m \in MimeTypes : ResponseSuccess(m)

Spec == Init /\ [][Next]_vars

\* The link world: the redirect world with few urls, where url 1 is typed
\* and url 2 is a link of the lookup table, displayed under the name 1, and
\* where the server of url 1 also redirects to url 1 under the scheme gopher.
LinkURLs == 1..NumLinkURLs
LinkName(u) == u - 1
LinkTargets(url) ==
    (RedirectTargets(url) \cap LinkURLs) \cup (IF url = 1 THEN {-1} ELSE {})

NextLink ==
    \/ \E u \in StartURLs :
          /\ Len(history) < MaxHist
          /\ IF LinkName(u) = 0 THEN do_go(u) ELSE default(u, LinkName(u))
    \/ ConnectFails
    \/ SendRequest(1, 1, TRUE)
    \/ InvalidHeader
    \/ ResponseFailure
    \/ ResponseInput
    \/ \E u \in LinkTargets(gi.url), p \in BOOLEAN :
          pc = "wait" /\ (p => PermRoom(MaxPerm)) /\ ResponseRedirect(u, p)
    \/ \E y \in BOOLEAN : RedirectAnswer(y)
    \/ \E m \in MimeTypes : ResponseSuccess(m)

SpecLink == Init /\ [][NextLink]_vars

\* The trust-store world: TOFU mode (the default), the cache off; the
\* servers answer with a failure or a success.
InitTofu ==
    /\ InitCommon
    /\ restricted = FALSE
    /\ active = NoIdent
    /\ cert_disk = {}
    /\ has_crypto \in BOOLEAN
    /\ options = [cache |-> FALSE, tls_mode |-> "tofu", auto_follow_redirects |-> TRUE]

NextTofu ==
    \/ \E u \in TofuURLs :
          /\ Len(history) < MaxHist
          /\ Len(db) < MaxRows
          /\ \A i \in 1..Len(db) : db[i].count < MaxCount
          /\ do_go(u)
    \/ ConnectFails
    \/ \E a \in Addresses(Host(gi.url)), f \in Fingerprints, v \in BOOLEAN :
          SendRequest(a, f, v)
    \/ \E y \in BOOLEAN : TofuAnswer(y)
    \/ InvalidHeader
    \/ ResponseFailure
    \/ \E m \in MimeTypes : ResponseSuccess(m)
    \/ \E t \in TofuTimes : Tick(t)

SpecTofu == InitTofu /\ [][NextTofu]_vars

\* The cache world: the cache is on (set cache True), certificates are
\* checked against the CAs; the servers answer with a failure or a success.
\* The user visits new urls in their order, revisits url 1 and reloads.
InitCache ==
    /\ InitCommon
    /\ restricted = FALSE
    /\ active = NoIdent
    /\ cert_disk = {}
    /\ has_crypto = FALSE
    /\ options = [cache |-> TRUE, tls_mode |-> "ca", auto_follow_redirects |-> TRUE]

Visited == {history[i].url : i \in 1..Len(history)}
\* files replaced in the cache by a later response for the same url
Replaced == files \ ({cache[u].filename : u \in DOMAIN cache} \cup {tmp_filename})
\* visits so far that were not the first visit of a url
Revisits == (Len(history) - Cardinality(Visited)) + Cardinality(Replaced)

NextCache ==
    \/ \E u \in {1, Cardinality(Visited) + 1} \cap CacheURLs :
          /\ pc = "idle"
          /\ u \in Visited => Revisits < MaxRevisits
          /\ NewFile <= MaxCacheFiles
          /\ do_go(u)
    \/ pc = "idle" /\ Revisits < MaxRevisits /\ NewFile <= MaxCacheFiles /\ do_reload
    \/ SendRequest(1, 1, TRUE)
    \/ ResponseFailure
    \/ \E m \in MimeTypes : ResponseSuccess(m)
    \/ \E t \in CacheTimes : Tick(t)

SpecCache == InitCache /\ [][NextCache]_vars

\* The cache-age world: as the cache world, with few urls, any visited url
\* typed again, every way a fetch fails, and a clock that brings entries to
\* the ages 179, 180 and 181; the user may quit.
NextCacheAge ==
    \/ \E u \in (Visited \cup {Cardinality(Visited) + 1}) \cap AgeURLs :
          /\ pc = "idle"
          /\ u \in Visited => Revisits < MaxRevisits
          /\ NewFile <= MaxCacheFiles
          /\ do_go(u)
    \/ pc = "idle" /\ Revisits < MaxRevisits /\ NewFile <= MaxCacheFiles /\ do_reload
    \/ ConnectFails
    \/ SendRequest(1, 1, TRUE)
    \/ InvalidHeader
    \/ ResponseFailure
    \/ \E m \in MimeTypes : ResponseSuccess(m)
    \/ \E t \in AgeTimes : Tick(t)
    \/ do_quit

SpecCacheAge == InitCache /\ [][NextCacheAge]_vars

\* The identity world: certificates are checked against the CAs, the cache
\* is off; the session is restricted or not, and may start with the
\* identity of --tls-cert active.  The user has one external certificate and
\* one persistent certificate of an earlier session, visits urls of two hosts, manages
\* identities between fetches and quits; the servers answer with a failure,
\* a success or a certificate request.
IdentURLs == {1, 3}

InitIdent ==
    /\ InitCommon
    /\ restricted \in BOOLEAN
    /\ cert_disk = {External(1), Persistent(1)}
    /\ active \in {NoIdent, External(1)}
    /\ has_crypto = FALSE
    /\ options = [cache |-> FALSE, tls_mode |-> "ca", auto_follow_redirects |-> TRUE]

NextIdent ==
    \/ \E u \in IdentURLs :
          /\ pc = "idle"
          /\ Len(history) < MaxHist
          /\ Len(active_cert_domains) < MaxShown
          /\ do_go(u)
    \/ \E r \in Answers : GuardAnswer(r)
    \/ \E y \in BOOLEAN : OfferAnswer(y)
    \/ ConnectFails
    \/ SendRequest(1, 1, TRUE)
    \/ ResponseFailure
    \/ CertRequired
    \/ \E m \in MimeTypes : ResponseSuccess(m)
    \/ /\ Cardinality(transient_certs_created) < MaxTransient
       /\ _generate_transient_cert_cert(Cardinality(transient_certs_created) + 1)
    \/ do_cert_deactivate
    \/ do_cert_generate(1)
    \/ do_cert_choose(1)
    \/ do_cert_load(1)
    \/ do_quit

SpecIdent == InitIdent /\ [][NextIdent]_vars

\* The navigation world: certificates are checked against the CAs, the
\* cache is on or off, every redirect is asked about (set
\* auto_follow_redirects False).  The user types urls and reloads, and
\* with the cache off goes back and forward; only the server of url 1
\* redirects permanently; the servers answer with a failure, an input request, a
\* redirect or a success (with a type, or with an empty meta).
\* two urls of one host; url 2 is url 1 with a query
NavURLs == {1, 2}

InitNav ==
    /\ InitCommon
    /\ restricted = FALSE
    /\ active = NoIdent
    /\ cert_disk = {}
    /\ has_crypto = FALSE
    /\ \E c \in BOOLEAN :
         options = [cache |-> c, tls_mode |-> "ca", auto_follow_redirects |-> FALSE]

NextNav ==
    \/ \E u \in NavURLs :
          pc = "idle" /\ hist_index + 1 < MaxNavHist /\ NewFile <= MaxNavFiles /\ do_go(u)
    \/ pc = "idle" /\ hist_index < MaxNavHist /\ NewFile <= MaxNavFiles /\ do_reload
    \/ pc = "idle" /\ ~options.cache /\ NewFile <= MaxNavFiles /\ do_back
    \/ pc = "idle" /\ ~options.cache /\ NewFile <= MaxNavFiles /\ do_forward
    \/ ConnectFails
    \/ SendRequest(1, 1, TRUE)
    \/ ResponseFailure
    \/ ResponseInput
    \/ \E u \in RedirectTargets(gi.url) \cap NavURLs, p \in BOOLEAN :
          pc = "wait" /\ (p => gi.url = 1 /\ PermRoom(MaxPerm)) /\ ResponseRedirect(u, p)
    \/ \E y \in BOOLEAN : RedirectAnswer(y)
    \/ \E m \in Metas : Response2x(m)

SpecNav == InitNav /\ [][NextNav]_vars

\* The permanent-redirect world: the redirect world with the urls of one
\* host, every redirect followed without a question, and room for two
\* entries in the permanent-redirect map.  The user types urls while file
\* names are left.
InitPerm ==
    /\ InitCommon
    /\ restricted = FALSE
    /\ active = NoIdent
    /\ cert_disk = {}
    /\ has_crypto = FALSE
    /\ options = [cache |-> FALSE, tls_mode |-> "ca", auto_follow_redirects |-> TRUE]

NextPerm ==
    \/ \E u \in NavURLs : pc = "idle" /\ NewFile <= MaxNavFiles /\ do_go(u)
    \/ ConnectFails
    \/ SendRequest(1, 1, TRUE)
    \/ ResponseFailure
    \/ \E u \in NavURLs, p \in BOOLEAN :
          pc = "wait" /\ (p => PermRoom(MaxNavPerm)) /\ ResponseRedirect(u, p)
    \/ \E m \in MimeTypes : ResponseSuccess(m)

SpecPerm == InitPerm /\ [][NextPerm]_vars

\* The rendering world: a text/gemini body of at most MaxLines lines has been
\* fetched (position "render": line 367 is next) and is rendered.
Lines == {Fence, TextLine, BlankLink, InvalidLink, LinkLine(1, 0), LinkLine(-2, 1)}
RECURSIVE BodiesOf(_)
BodiesOf(n) ==
    IF n = 0 THEN {<<>>}
    ELSE BodiesOf(n - 1) \cup {Append(b, l) : b \in BodiesOf(n - 1), l \in Lines}

InitRender ==
    /\ pc = "render"
    /\ body \in BodiesOf(MaxLines)
    /\ gi = NoItem
    /\ update_hist = TRUE
    /\ new_gi = NoRedirect
    /\ previous_redirectors = {}
    /\ permanent_redirects = EmptyMap
    /\ history = <<>>
    /\ hist_index = 0
    /\ self_gi = NoItem
    /\ self_mime = ""
    /\ index = <<>>
    /\ rendered = <<>>
    /\ at_call = NoCall
    /\ tmp_filename = 0
    /\ cache = EmptyMap
    /\ cache_timestamps = EmptyMap
    /\ files = {}
    /\ now = 0
    /\ db = <<>>
    /\ cert_files = {}
    /\ peer = NoPeer
    /\ outcome = "running"
    /\ chain = {}
    /\ redirects = 0
    /\ last_cache_op = NoCacheOp
    /\ asked = NoItem
    /\ active_cert_domains = <<>>
    /\ active_is_transient = FALSE
    /\ transient_certs_created = {}
    /\ client_certs = EmptyMap
    /\ restricted = FALSE
    /\ active = NoIdent
    /\ cert_disk = {}
    /\ has_crypto = FALSE
    /\ options = [cache |-> FALSE, tls_mode |-> "ca", auto_follow_redirects |-> TRUE]

\* self._handle_gemtext(body, gi)
Render ==
    /\ pc = "render"
    /\ pc' = "rendered"
    /\ index' = _handle_gemtext(body).index
    /\ rendered' = _handle_gemtext(body).rendered
    /\ UNCHANGED <<gi, update_hist, new_gi, previous_redirectors, permanent_redirects,
                   history, hist_index, self_gi, self_mime, body, at_call, cache_vars,
                   env_vars, tofu_vars, outcome, chain, redirects, asked, ident_vars>>

NextRender == Render

SpecRender == InitRender /\ [][NextRender]_vars

\* The world of identities on the wire: TOFU mode, the cache off, a url on
\* each of two hosts.  The session may start with the identity of --tls-cert
\* active; the user generates one transient identity and deactivates
\* identities between fetches.  The servers answer with a failure, a
\* success, a request for input or a temporary redirect to either url.
ShowURLs == {3, 5}

\* the connections the servers of this world still accept
ShowRoom ==
    /\ Len(active_cert_domains) < MaxShowShown
    /\ Len(db) < MaxShowRows
    /\ \A i \in 1..Len(db) : db[i].count < MaxShowCount

InitShow ==
    /\ InitCommon
    /\ restricted = FALSE
    /\ cert_disk = {External(1)}
    /\ active \in {NoIdent, External(1)}
    /\ has_crypto \in BOOLEAN
    /\ options = [cache |-> FALSE, tls_mode |-> "tofu", auto_follow_redirects |-> TRUE]

NextShow ==
    \/ \E u \in ShowURLs : pc = "idle" /\ Len(history) < MaxHist /\ do_go(u)
    \/ \E r \in Answers : GuardAnswer(r)
    \/ \E y \in BOOLEAN : OfferAnswer(y)
    \/ ConnectFails
    \/ \E a \in Addresses(Host(gi.url)), f \in Fingerprints, v \in BOOLEAN :
          pc = "connect" /\ ShowRoom /\ SendRequest(a, f, v)
    \/ \E y \in BOOLEAN : TofuAnswer(y)
    \/ ResponseFailure
    \/ ResponseInput
    \/ \E u \in ShowURLs : ResponseRedirect(u, FALSE)
    \/ \E y \in BOOLEAN : RedirectAnswer(y)
    \/ \E m \in MimeTypes : ResponseSuccess(m)
    \/ _generate_transient_cert_cert(1)
    \/ do_cert_deactivate

SpecShow == InitShow /\ [][NextShow]_vars

\* The world of the host named "active": certificates are checked against
\* the CAs, the cache is off; the user visits gemini://active/ and a url of
\* another host, with or without the identity of --tls-cert, generates one
\* transient identity, loads and deactivates identities between fetches.
\* The servers answer with a failure or a success.
SlotURLs == {1, ActiveURL}

InitSlot ==
    /\ InitCommon
    /\ restricted = FALSE
    /\ cert_disk = {External(1)}
    /\ active \in {NoIdent, External(1)}
    /\ has_crypto = FALSE
    /\ options = [cache |-> FALSE, tls_mode |-> "ca", auto_follow_redirects |-> TRUE]

NextSlot ==
    \/ \E u \in SlotURLs :
          /\ pc = "idle"
          /\ Len(history) < MaxHist
          /\ Len(active_cert_domains) < MaxSlotShown
          /\ do_go(u)
    \/ \E r \in Answers : GuardAnswer(r)
    \/ \E y \in BOOLEAN : OfferAnswer(y)
    \/ Raise
    \/ ConnectFails
    \/ SendRequest(1, 1, TRUE)
    \/ ResponseFailure
    \/ \E m \in MimeTypes : ResponseSuccess(m)
    \/ _generate_transient_cert_cert(1)
    \/ do_cert_deactivate
    \/ do_cert_load(1)

SpecSlot == InitSlot /\ [][NextSlot]_vars

\* ---------------------------------------------------------------- claims
\* C1: within one fetch at most MAX_REDIRECTS consecutive redirects are
\* followed: the redirect-chain set never holds more than 5 urls, no more
\* than 5 redirects are followed without a non-3x response between them, and
\* a response received while the set holds 5 urls leads neither to a
\* followed redirect nor to a redirect prompt.
C1_RedirectLimit ==
    /\ [](/\ Cardinality(previous_redirectors) <= MAX_REDIRECTS
          /\ redirects <= MAX_REDIRECTS)
    /\ [][(pc = "wait" /\ Cardinality(previous_redirectors) = MAX_REDIRECTS)
          => (redirects' # redirects + 1 /\ pc' # "redir_prompt")]_vars

\* C1 witness: five redirects were followed, six urls requested, and the
\* sixth redirect was refused because of the limit.
C1_Witness ==
    /\ pc = "idle"
    /\ outcome = "too_many_redirects"
    /\ redirects = MAX_REDIRECTS
    /\ Cardinality(chain) = MAX_REDIRECTS + 1
    /\ Cardinality(previous_redirectors) = MAX_REDIRECTS

\* C2: a redirect is never followed (nor offered to the user) to the url
\* that issued it or to a url already requested in the current redirect
\* chain; the refusal ends the fetch without a further request and without
\* touching the history.
C2_NoRevisit ==
    /\ []((pc = "connect" /\ redirects > 0) => gi.url \notin chain)
    /\ [](pc = "redir_prompt" => new_gi.url \notin chain)
    /\ [][(pc = "wait" /\ outcome' \in RedirectErrors)
          => (pc' = "idle" /\ chain' = chain /\ history' = history
              /\ hist_index' = hist_index /\ self_gi' = self_gi)]_vars

\* C2 witness: a -> 30 b, b -> 30 a fails after two requests, history empty.
C2_Witness ==
    /\ pc = "idle"
    /\ outcome = "redirect_loop"
    /\ chain = {1, 2}
    /\ redirects = 1
    /\ history = <<>>

\* The step is _send_request reaching the server: the connection is open and
\* the certificate passed the date and name checks (peer' is the connection).
Connected == pc = "connect" /\ options.tls_mode = "tofu" /\ peer' # NoPeer

\* rows of the pair (host, address) of connection p, as a set of positions
RowsOf(d, p) == {i \in 1..Len(d) : d[i].hostname = p.host /\ d[i].address = p.address}
Pinned(d, p) == {i \in RowsOf(d, p) : d[i].fingerprint = p.fingerprint}

\* C3: TOFU mismatch.  A connection whose pair has rows, none with the
\* presented fingerprint, stops at the prompt with nothing sent and the store
\* unchanged; on acceptance exactly one row (host, address, fingerprint,
\* count 1) is appended and the old rows are unchanged; on refusal the fetch
\* fails, the store and the certificate files are unchanged, nothing is sent.
C3_TofuMismatch ==
    /\ [][(Connected /\ RowsOf(db, peer') # {} /\ Pinned(db, peer') = {})
          => (pc' = "tofu_prompt" /\ db' = db /\ cert_files' = cert_files
              /\ chain' = chain)]_vars
    /\ [][pc = "tofu_prompt"
          => \/ /\ Len(db') = Len(db) + 1
                /\ \A i \in 1..Len(db) : db'[i] = db[i]
                /\ db'[Len(db')].hostname = peer.host
                /\ db'[Len(db')].address = peer.address
                /\ db'[Len(db')].fingerprint = peer.fingerprint
                /\ db'[Len(db')].count = 1
             \/ /\ db' = db
                /\ cert_files' = cert_files
                /\ chain' = chain
                /\ pc' = "idle"
                /\ outcome' = "error"]_vars

\* C3 witness: a pair with a fingerprint seen twice and a second
\* fingerprint accepted by the user (count 1).
C3_Witness ==
    \E i, j \in 1..Len(db) :
        /\ i < j
        /\ db[i].hostname = db[j].hostname
        /\ db[i].address = db[j].address
        /\ db[i].fingerprint # db[j].fingerprint
        /\ db[i].count = 2
        /\ db[j].count = 1

\* C4: TOFU first contact.  A connection whose pair has no row is accepted
\* without a prompt (the request is sent); afterwards the pair has exactly
\* one row, with the presented fingerprint and count 1, and the DER file of
\* the certificate exists.
C4_TofuFirstContact ==
    [][(Connected /\ RowsOf(db, peer') = {})
       => /\ pc' = "wait"
          /\ gi.url \in chain'
          /\ Cardinality(RowsOf(db', peer')) = 1
          /\ \A i \in RowsOf(db', peer') :
                db'[i].fingerprint = peer'.fingerprint /\ db'[i].count = 1
          /\ \A i \in 1..Len(db) : db'[i] = db[i]
          /\ Len(db') = Len(db) + 1
          /\ peer'.fingerprint \in cert_files']_vars

\* C4 witness: the request was sent on a first contact.
C4_Witness ==
    /\ pc = "wait"
    /\ Len(db) = 1
    /\ db[1].count = 1
    /\ db[1].fingerprint = peer.fingerprint
    /\ peer.fingerprint \in cert_files

\* C5: TOFU match.  A connection presenting a recorded fingerprint of its
\* pair is accepted without a prompt, the row's count grows by exactly 1 and
\* its last_seen becomes now, no row is added or removed and no other row
\* changes; in every step rows are only appended and no row's count or
\* last_seen decreases.
C5_TofuMatch ==
    /\ [][(Connected /\ Pinned(db, peer') # {})
          => /\ pc' = "wait"
             /\ Len(db') = Len(db)
             /\ \A i \in 1..Len(db) :
                  IF i \in Pinned(db, peer')
                  THEN db'[i] = [db[i] EXCEPT !.count = db[i].count + 1, !.last_seen = now]
                  ELSE db'[i] = db[i]]_vars
    /\ [][/\ Len(db') >= Len(db)
          /\ \A i \in 1..Len(db) :
               /\ db'[i].hostname = db[i].hostname
               /\ db'[i].address = db[i].address
               /\ db'[i].fingerprint = db[i].fingerprint
               /\ db'[i].first_seen = db[i].first_seen
               /\ db'[i].count >= db[i].count
               /\ db'[i].last_seen >= db[i].last_seen]_vars

\* C5 witness: the second row of a pair was matched at a later time.
C5_Witness ==
    /\ pc = "wait"
    /\ \E i, j \in 1..Len(db) :
        /\ i < j
        /\ db[i].hostname = db[j].hostname
        /\ db[i].address = db[j].address
        /\ db[j].fingerprint = peer.fingerprint
        /\ db[j].count = 2
        /\ db[j].last_seen > db[j].first_seen
        /\ db[i].count = 1

\* C6: after every cache operation the url->entry map and the url->timestamp
\* map have the same keys and every file an entry names exists on disk.  This
\* holds in every state the commands of the cache world lead to, and in
\* what _is_cached, _remove_from_cache and _trim_cache would leave behind
\* when called in that state.
C6_CacheValid ==
    /\ _validate_cache(CacheState)
    /\ \A u \in CacheURLs : _validate_cache(_is_cached(CacheState, u, now).cs)
    /\ \A u \in DOMAIN cache : _validate_cache(_remove_from_cache(CacheState, u))
    /\ DOMAIN cache # {} => _validate_cache(_trim_cache(CacheState, now))

\* C6 witness: _is_cached expired one entry of a full cache.
C6_Witness ==
    /\ last_cache_op.op = "expire"
    /\ Cardinality(DOMAIN cache) = MAX_CACHE_SIZE - 1
    /\ DOMAIN cache_timestamps = DOMAIN cache

\* C7: the cache never holds more than MAX_CACHE_SIZE entries between two
\* commands or while a fetch waits for the network.
C7_CacheBounded == Cardinality(DOMAIN cache) <= MAX_CACHE_SIZE

\* C7 witness: an insertion into a full cache left it full.
C7_Witness ==
    /\ last_cache_op.op = "add"
    /\ last_cache_op.removed # {}
    /\ last_cache_op.url \in DOMAIN cache
    /\ Cardinality(DOMAIN cache) = MAX_CACHE_SIZE

\* A command typed at the prompt ends without a request and with a new
\* current item: _go_to_gi served the item from the cache.
ServedFromCache == pc = "idle" /\ pc' = "idle" /\ self_gi' # self_gi

\* C8: an item is served from the cache only if its entry is at most
\* MAX_CACHE_AGE_SECS old at that moment.
C8_FreshWhenServed ==
    [][ServedFromCache
       => /\ self_gi'.url \in DOMAIN cache
          /\ now - cache_timestamps[self_gi'.url] <= MAX_CACHE_AGE_SECS]_vars

\* C8 witness: an entry exactly 180 seconds old was served.
C8_Witness ==
    /\ outcome = "cached"
    /\ last_cache_op.op = "hit"
    /\ last_cache_op.url = self_gi.url
    /\ last_cache_op.age = MAX_CACHE_AGE_SECS

\* _go_to_gi reached its call of _is_cached: the item was served from the
\* cache, or the request of a new item (not the reload of the current one)
\* is about to be sent.
IsCachedCalled ==
    \/ ServedFromCache
    \/ pc = "idle" /\ pc' = "connect" /\ gi' # self_gi
IsCachedURL == IF pc' = "connect" THEN gi'.url ELSE self_gi'.url

\* C9: _is_cached(url) returns false and changes nothing when url has no
\* entry; returns true and changes nothing when the entry is at most 180 s
\* old; and when the entry is older it returns false, removes the entry from
\* both maps and unlinks its file, leaving every other entry as it was.
C9_IsCached ==
    [][IsCachedCalled
       => LET url == IsCachedURL
              ret == ServedFromCache
              same == /\ cache' = cache
                      /\ cache_timestamps' = cache_timestamps
                      /\ files' = files
          IN IF url \notin DOMAIN cache
             THEN ~ret /\ same
             ELSE IF now - cache_timestamps[url] <= MAX_CACHE_AGE_SECS
             THEN ret /\ same
             ELSE /\ ~ret
                  /\ DOMAIN cache' = DOMAIN cache \ {url}
                  /\ DOMAIN cache_timestamps' = DOMAIN cache_timestamps \ {url}
                  /\ files' = files \ {cache[url].filename}
                  /\ \A v \in DOMAIN cache' :
                       /\ cache'[v] = cache[v]
                       /\ cache_timestamps'[v] = cache_timestamps[v]]_vars

\* C9 witness: an entry 181 seconds old was expired while entries 180 and
\* 179 seconds old stayed, and some url never had an entry.
C9_Witness ==
    /\ pc = "connect"
    /\ last_cache_op.op = "expire"
    /\ last_cache_op.age = MAX_CACHE_AGE_SECS + 1
    /\ last_cache_op.url \notin DOMAIN cache
    /\ \E u, v \in DOMAIN cache :
         /\ now - cache_timestamps[u] = MAX_CACHE_AGE_SECS
         /\ now - cache_timestamps[v] = MAX_CACHE_AGE_SECS - 1
    /\ AgeURLs \ Visited # {}

\* C10: a successful response for gi.url is inserted with the current time.
\* If the cache then has at most MAX_CACHE_SIZE entries nothing is removed.
\* Otherwise an entry with the oldest timestamp is removed whatever its age,
\* every other removed entry is older than MAX_CACHE_AGE_SECS, no removed
\* entry is younger than a kept one, and no kept entry is older than
\* MAX_CACHE_AGE_SECS (the loop stopped at the first that is not).  Kept
\* entries are unchanged.
C10_AddToCache ==
    [][(pc = "wait" /\ pc' = "idle" /\ outcome' = "ok")
       => LET url == gi.url
              inserted == DOMAIN cache \cup {url}
              time(u) == IF u = url THEN now ELSE cache_timestamps[u]
              kept == DOMAIN cache'
              removed == inserted \ kept
          IN /\ kept \subseteq inserted
             /\ DOMAIN cache_timestamps' = kept
             /\ \A k \in kept :
                  /\ cache_timestamps'[k] = time(k)
                  /\ cache'[k].filename = IF k = url THEN tmp_filename'
                                          ELSE cache[k].filename
             /\ IF Cardinality(inserted) <= MAX_CACHE_SIZE
                THEN removed = {}
                ELSE /\ \E o \in removed :
                          /\ \A v \in inserted : time(o) <= time(v)
                          /\ \A r \in removed \ {o} :
                               now - time(r) > MAX_CACHE_AGE_SECS
                     /\ \A r \in removed, k \in kept : time(r) <= time(k)
                     /\ \A k \in kept : now - time(k) <= MAX_CACHE_AGE_SECS]_vars

\* C10 witness: an insertion removed the oldest entry and expired ones, and
\* stopped at an entry exactly 180 seconds old.
C10_Witness ==
    /\ last_cache_op.op = "add"
    /\ Cardinality(last_cache_op.removed) >= 2
    /\ last_cache_op.url \in DOMAIN cache
    /\ \E k \in DOMAIN cache : now - cache_timestamps[k] = MAX_CACHE_AGE_SECS

\* C11: _empty_cache unlinks the file of every cache entry and forgets all
\* entries: once it has run (in do_quit) both cache maps are empty and the
\* cache is consistent (same keys, every entry's file exists).
C11_EmptyCacheForgets ==
    [][pc' = "exited" =>
          /\ cache' = EmptyMap
          /\ cache_timestamps' = EmptyMap
          /\ _validate_cache([cache |-> cache', cache_timestamps |-> cache_timestamps',
                              files |-> files'])]_vars

\* the user has quit with entries in the cache: their files are gone
C11_Witness ==
    /\ pc = "exited"
    /\ DOMAIN cache # {}
    /\ \A u \in DOMAIN cache : cache[u].filename \notin files

C13_RedirectConsent ==
    [][/\ (pc = "wait" /\ pc' = "connect" /\ redirects' = redirects + 1)
             => /\ Host(gi'.url) = Host(gi.url)
                /\ Scheme(gi'.url) = Scheme(gi.url)
                /\ options.auto_follow_redirects
       /\ pc = "redir_prompt"
             => \/ /\ pc' = "connect"
                   /\ gi'.url = new_gi.url
                   /\ redirects' = redirects + 1
                \/ /\ pc' = "idle"
                   /\ outcome' = "abort"
                   /\ gi' = NoItem
                   /\ chain' = chain
                   /\ previous_redirectors' = previous_redirectors
                   /\ permanent_redirects' = permanent_redirects]_vars

\* the question is asked for a redirect to the same host under another
\* scheme, with auto_follow_redirects on
C13_Witness ==
    /\ pc = "redir_prompt"
    /\ options.auto_follow_redirects
    /\ Host(new_gi.url) = Host(gi.url)
    /\ Scheme(new_gi.url) # Scheme(gi.url)

\* C14: redirect state does not carry over between fetches: every fetch
\* the caller starts begins with a redirect-chain set (previous_redirectors)
\* that holds no url of an earlier fetch, however the earlier fetch ended.
C14_ChainFresh ==
    [][(pc = "idle" /\ pc' = "connect") => previous_redirectors' = {}]_vars

\* a fetch of the caller is about to make its first request while the set
\* still holds a redirector of the fetch before
C14_Witness ==
    /\ pc = "connect"
    /\ redirects = 0
    /\ chain = {}
    /\ previous_redirectors # {}

C16_TransientGone ==
    [][/\ (active.kind = "transient" /\ active' = NoIdent) => active \notin cert_disk'
       /\ pc' = "exited" => \A i \in cert_disk' : i.kind # "transient"]_vars

\* C17: the files of a persistent identity (of client_certs/ or of an
\* external path) are never deleted by the client: a certificate of these
\* kinds that is on disk stays on disk at every step.
C17_PersistentKept ==
    [][\A i \in cert_disk : i.kind \in {"persistent", "external"} => i \in cert_disk']_vars

\* the session goes on and neither the certificate of client_certs/ nor the
\* external certificate, both on disk at the start, is there any more
C17_Witness ==
    /\ pc = "idle"
    /\ Persistent(1) \notin cert_disk
    /\ External(1) \notin cert_disk

\* C18: the pre-flight ends with the re-activation question exactly when no
\* identity is active and the target host has an entry in client_certs,
\* nothing having been sent.  On y/yes the entry's identity is active with
\* no domain shown to; on any other answer the entry is gone and no
\* identity is active; either way the same request goes on to connect.
C18_Offer ==
    [][/\ (pc \in {"idle", "guard_prompt"} /\ pc' \in {"offer_prompt", "connect"})
             => pc' = "offer_prompt"
                  <=> (active' = NoIdent /\ Host(gi'.url) \in DOMAIN client_certs')
       /\ pc = "offer_prompt"
             => /\ pc' = "connect"
                /\ gi' = gi
                /\ chain' = chain
                /\ cert_disk' = cert_disk
                /\ \/ /\ active' = client_certs[Host(gi.url)]
                      /\ active_cert_domains' = <<>>
                      /\ client_certs' = client_certs
                   \/ /\ active' = NoIdent
                      /\ DOMAIN client_certs' = DOMAIN client_certs \ {Host(gi.url)}
                      /\ \A h \in DOMAIN client_certs' : client_certs'[h] = client_certs[h]]_vars

\* the offer was accepted: a transient identity of an earlier activation is
\* active again for its host, shown to no domain yet, the request not sent
C18_Witness ==
    /\ pc = "connect"
    /\ chain = {}
    /\ active.kind = "transient"
    /\ ~active_is_transient
    /\ active_cert_domains = <<>>
    /\ Host(gi.url) \in DOMAIN client_certs
    /\ client_certs[Host(gi.url)] = active

\* The step is the handling of a 6x header.  The servers of the identity
\* world answer with a failure, a success or a certificate request: a
\* header after which the fetch goes on is a certificate request, and of
\* the headers that end the fetch only a certificate request ends it with
\* UserAbortException or NameError.
CertRequested == pc = "wait" /\ (pc' # "idle" \/ outcome' \in {"abort", "name_error"})

\* C19: a 6x header in unrestricted mode leads to the challenge, after
\* which the same request is restarted unless the user gives up, and giving
\* up ends the fetch as a user abort.
C19_Challenge ==
    [][(CertRequested /\ ~restricted)
          => \/ pc' \in {"guard_prompt", "offer_prompt", "connect"} /\ gi'.url = gi.url
             \/ pc' = "idle" /\ outcome' = "abort"]_vars

\* an unrestricted session answered a 6x header with NameError: the fetch
\* is over and no identity was generated or activated
C19_Witness ==
    /\ pc = "idle"
    /\ ~restricted
    /\ outcome = "name_error"
    /\ active = NoIdent
    /\ transient_certs_created = {}

\* C20: in restricted mode a 6x header ends the fetch: the request is not
\* restarted, nothing is displayed or added to the history, the identity
\* state is as before (nothing generated, loaded or activated, no
\* certificate file created); and no step of a restricted session creates a
\* certificate file.
C20_RestrictedCertRequest ==
    [][/\ (CertRequested /\ restricted)
             => /\ pc' = "idle"
                /\ outcome' = "abort"
                /\ gi' = NoItem
                /\ ident_vars' = ident_vars
                /\ nav_vars' = nav_vars
       /\ restricted
             => /\ cert_disk' \subseteq cert_disk
                /\ transient_certs_created' = transient_certs_created]_vars

\* a restricted session with the identity of --tls-cert shown to a host
\* received a 6x header: the fetch is over, the identity as it was
C20_Witness ==
    /\ pc = "idle"
    /\ restricted
    /\ outcome = "abort"
    /\ active = External(1)
    /\ active_cert_domains # <<>>
    /\ history = <<>>

\* C21: a fetch that ends in a failure or in the user's abort changes
\* nothing of the navigation state.  From the call of _go_to_gi until a 2x
\* response (or a cache hit) completes it, and after it has failed, the
\* current resource (gi, mime), the history and its cursor, the link index
\* and tmp_filename are what the call found, and no url has a cache entry
\* that had none at the call.
C21_FailureFrame ==
    at_call.open =>
        /\ self_gi = at_call.gi
        /\ self_mime = at_call.mime
        /\ history = at_call.history
        /\ hist_index = at_call.hist_index
        /\ index = at_call.index
        /\ tmp_filename = at_call.tmp_filename
        /\ DOMAIN cache \subseteq at_call.cached

\* a fetch was aborted at a redirect prompt after a page with links had
\* been visited and cached
C21_Witness ==
    /\ outcome = "abort"
    /\ at_call.open
    /\ index # <<>>
    /\ history # <<>>
    /\ cache # EmptyMap

\* C22: the opt-outs of the caller of _go_to_gi hold on every path.  A
\* command that calls it with update_hist=False (do_back, do_forward) leaves
\* the history list as it is and the cursor where the command put it, at
\* the call and in every later step of the fetch; a command that calls it
\* with check_cache=False (do_reload) is never served from the cache.
\* (handle=False travels through the same calls as the other two.)
C22_OptOuts ==
    [][/\ (do_back \/ do_forward) =>
             /\ history' = history
             /\ hist_index' \in {hist_index - 1, hist_index + 1}
       /\ (pc # "idle" /\ ~at_call.update_hist) =>
             /\ history' = history
             /\ hist_index' = hist_index
       /\ do_reload => outcome' # "cached"]_vars

\* do_back has been served and the history has changed
C22_Witness ==
    /\ pc = "idle"
    /\ ~at_call.update_hist
    /\ outcome \in {"ok", "cached"}
    /\ permanent_redirects # EmptyMap
    /\ Len(history) > 1

\* C23: when a visit is recorded (a 2x response or a cache hit completes a
\* call that updates the history) and the item is not the object at the
\* cursor, then with the cursor at i the new history is the old entries
\* 0..i followed by the item, and the cursor is on this new last entry; the
\* entries after i are dropped.  In an empty history the item becomes the
\* only entry.
C23_UpdateHistory ==
    [][(/\ \/ pc = "wait" /\ outcome' = "ok" /\ update_hist
           \/ pc = "idle" /\ outcome' = "cached" /\ at_call'.update_hist
        /\ ~(history # <<>> /\ history[hist_index + 1] = self_gi'))
       => LET n == IF history = <<>> THEN 0 ELSE hist_index + 1
          IN /\ Len(history') = n + 1
             /\ \A k \in 1..n : history'[k] = history[k]
             /\ history'[n + 1] = self_gi'
             /\ hist_index' = n]_vars

\* two visits were recorded, the cursor went back to the first entry, and a
\* third visit replaced the second entry
C23_Witness ==
    /\ pc = "idle"
    /\ outcome = "ok"
    /\ ~options.cache
    /\ permanent_redirects = EmptyMap
    /\ Len(history) = 2
    /\ hist_index = 1
    /\ history[1].oid = 1
    /\ history[2].oid = 3
    /\ self_gi = history[2]

\* C24: a recorded visit of the url of the current history entry leaves the
\* history and the cursor as they are, however the visit was started (the
\* url typed again, a link to it followed, a reload): the current entry is
\* never appended a second time.
C24_NoDuplicate ==
    [][(/\ \/ pc = "wait" /\ outcome' = "ok" /\ update_hist
           \/ pc = "idle" /\ outcome' = "cached" /\ at_call'.update_hist
        /\ history # <<>>
        /\ history[hist_index + 1].url = self_gi'.url)
       => /\ history' = history
          /\ hist_index' = hist_index]_vars

\* the history holds the same url twice in a row, and no redirect was met
C24_Witness ==
    /\ pc = "idle"
    /\ permanent_redirects = EmptyMap
    /\ Len(history) = 2
    /\ history[1].url = history[2].url
    /\ hist_index = 1

\* C25: a response whose status is 20 and whose meta is empty is a success
\* of type text/gemini (charset utf-8): the fetch ends with the item current
\* and self.mime = "text/gemini", not with an invalid-header error.
C25_EmptyMeta ==
    [][Response2x("") =>
          /\ outcome' = "ok"
          /\ self_mime' = "text/gemini"
          /\ self_gi' = gi]_vars

\* a response with status 20 and an empty meta has ended a fetch with an
\* error: nothing is current
C25_Witness ==
    /\ pc = "idle"
    /\ outcome = "error"
    /\ chain # {}
    /\ redirects = 0
    /\ self_gi = NoItem
    /\ previous_redirectors = {}

\* Line i of body b is inside a preformatted block: an odd number of fence
\* lines comes before it.
InPreformatted(b, i) == Cardinality({j \in 1..(i - 1) : b[j].kind = "fence"}) % 2 = 1

\* the k-th smallest member of a set S of line numbers
Kth(S, k) == CHOOSE i \in S : Cardinality({j \in S : j < i}) = k - 1

\* The outcome of a rendering when the lines numbered in L are the links
\* that are indexed: the index is their items in document order; the file
\* has one line for every line of the body that is not a fence and not a
\* link line left out of L, in document order; the line for the k-th
\* member of L is the item's name or url under the label k, a line inside
\* a preformatted block is written as it is.
RenderedAs(b, L) ==
    LET E == {i \in 1..Len(b) :
                 /\ b[i].kind # "fence"
                 /\ (InPreformatted(b, i) \/ b[i].kind # "link" \/ i \in L)}
    IN /\ Len(index) = Cardinality(L)
       /\ \A k \in 1..Cardinality(L) :
             index[k] = [url |-> b[Kth(L, k)].url, name |-> b[Kth(L, k)].name]
       /\ Len(rendered) = Cardinality(E)
       /\ \A k \in 1..Cardinality(E) :
             LET i == Kth(E, k) IN
             IF InPreformatted(b, i)
             THEN rendered[k].kind = "verbatim" /\ rendered[k].line = b[i]
             ELSE IF i \in L
             THEN /\ rendered[k].kind = "item"
                  /\ rendered[k].label = Cardinality({j \in L : j <= i})
                  /\ rendered[k].name = b[i].name
                  /\ rendered[k].url = (IF b[i].name # 0 THEN 0 ELSE b[i].url)
             ELSE rendered[k].kind = "formatted" /\ rendered[k].line = b[i]

\* C26 as stated: after a rendering the link index is, in document order,
\* the link lines outside preformatted blocks that start with => and have a
\* non-blank target; the k-th is rendered under the label k (1..n without
\* gaps, whatever was skipped), and a => line inside a preformatted block
\* is written verbatim and not indexed.
C26_RenderNonBlank ==
    pc = "rendered" =>
        RenderedAs(body, {i \in 1..Len(body) :
                             /\ body[i].kind = "link"
                             /\ body[i].ref # "blank"
                             /\ ~InPreformatted(body, i)})

\* C26, amended: the same, the indexed lines being the link lines outside
\* preformatted blocks from which from_map_line builds an item: the target
\* is not blank and is a url that GeminiItem can take apart.  Every other
\* link line outside a preformatted block is skipped.
C26_Render ==
    pc = "rendered" =>
        RenderedAs(body, {i \in 1..Len(body) :
                             /\ body[i].kind = "link"
                             /\ body[i].ref = "url"
                             /\ ~InPreformatted(body, i)})

\* a body with a blank link line, a link, and a link inside a preformatted
\* block has been rendered: one item, labelled 1
C26_Witness ==
    /\ pc = "rendered"
    /\ body = <<BlankLink, LinkLine(-2, 1), Fence, LinkLine(1, 0)>>
    /\ Len(index) = 1
    /\ Len(rendered) = 2
    /\ rendered[1].label = 1

\* C27: from a successful fetch until the session ends, the file named by
\* tmp_filename exists on disk, with the cache on or off and whatever
\* entries expire or are trimmed meanwhile.
C27_TmpFileExists ==
    (tmp_filename # 0 /\ pc # "exited") => tmp_filename \in files

\* the response of the last successful fetch is current, and its file has
\* been unlinked with its cache entry
C27_Witness ==
    /\ pc = "idle"
    /\ self_gi # NoItem
    /\ tmp_filename # 0
    /\ tmp_filename \notin files
    /\ self_gi.url \notin DOMAIN cache

\* C28: a row enters cert_cache only after the certificate's file has been
\* written: every fingerprint of the table has its file
\* cert_cache/<fingerprint>.crt on disk, at every moment.
C28_RowsHaveFiles ==
    \A i \in 1..Len(db) : db[i].fingerprint \in cert_files

\* the user has accepted a changed certificate: its row is in the table and
\* the fetch has ended with an error before the file was written
C28_Witness ==
    /\ pc = "idle"
    /\ outcome = "error"
    /\ ~has_crypto
    /\ \E i \in 1..Len(db) : db[i].fingerprint \notin cert_files

\* C29: the pre-flight of the permanent redirects always terminates: the
\* map never holds a cycle, so following it from any key ends at a url that
\* is no key, and no call of _go_to_gi recurses without end.
C29_NoCycle ==
    /\ \A u \in DOMAIN permanent_redirects :
          ObeyPermanent(u, Cardinality(DOMAIN permanent_redirects)) # 0
    /\ outcome # "crash"

\* the map sends url 1 to url 2 and url 2 to url 1, and a typed url has
\* ended in the RecursionError
C29_Witness ==
    /\ pc = "idle"
    /\ outcome = "crash"
    /\ DOMAIN permanent_redirects = {1, 2}
    /\ permanent_redirects[1] = 2
    /\ permanent_redirects[2] = 1

\* C30: every restart of a fetch goes through the pre-flight of a caller's
\* request: no request is sent for a url that is a key of the
\* permanent-redirect map, the mapped url is requested in its place.
C30_RestartPreflight ==
    pc = "wait" => gi.url \notin DOMAIN permanent_redirects

\* the request of a followed redirect is on the wire for a url the map
\* sends elsewhere
C30_Witness ==
    /\ pc = "wait"
    /\ redirects > 0
    /\ gi.url \in DOMAIN permanent_redirects
    /\ permanent_redirects[gi.url] # gi.url

\* C31: in TOFU mode the request line goes out on a connection only after
\* the certificate the server presented was accepted: it is the first one
\* seen for (host, address), or it matches a pinned row, or the user accepted
\* it at the mismatch prompt, and in each case the trust store holds its row.
\* When the connection or the validation raises, nothing is sent, and the
\* host is added neither to the list of hosts the active identity was shown
\* to nor to the map of the last identity of each host.
C31_SendAfterAccept ==
    [][/\ (options.tls_mode = "tofu" /\ pc # "wait" /\ pc' = "wait") =>
            /\ peer'.host = Host(gi.url)
            /\ \E i \in 1..Len(db') :
                  /\ db'[i].hostname = peer'.host
                  /\ db'[i].address = peer'.address
                  /\ db'[i].fingerprint = peer'.fingerprint
            /\ \/ pc = "tofu_prompt"
               \/ /\ pc = "connect"
                  /\ CachedCerts(db, peer'.host, peer'.address) = {}
               \/ /\ pc = "connect"
                  /\ \E i \in CachedCerts(db, peer'.host, peer'.address) :
                        db[i].fingerprint = peer'.fingerprint
       /\ (pc \in {"connect", "tofu_prompt"} /\ pc' # "wait") =>
            /\ chain' = chain
            /\ active_cert_domains' = active_cert_domains
            /\ client_certs' = client_certs
      ]_vars

\* An identity is active and was shown to no host; the fetch of a url ended
\* in _validate_cert, after the user accepted a second certificate for a
\* pinned (host, address), with nothing sent.
C31_Witness ==
    /\ pc = "idle"
    /\ outcome = "error"
    /\ chain = {}
    /\ active # NoIdent
    /\ active_cert_domains = <<>>
    /\ client_certs = EmptyMap
    /\ ~has_crypto
    /\ \E i, j \in 1..Len(db) :
          /\ i < j
          /\ db[i].hostname = db[j].hostname
          /\ db[i].address = db[j].address
          /\ db[i].fingerprint # db[j].fingerprint

\* C32: on every path to a connection (the caller's request, the restart
\* after a redirect, the restart after an input), a fetch reaches
\* _send_request with an identity active only if the host is in the list of
\* hosts the identity was shown to, or that list is empty, or the step is
\* the user's answer n to the prompt of the cross-domain guard.  Between
\* that point and the connection nothing changes the identity or the host.
C32_AttachGuarded ==
    [][/\ (pc # "connect" /\ pc' = "connect" /\ active' # NoIdent) =>
            \/ Host(gi'.url) \in Range(active_cert_domains')
            \/ active_cert_domains' = <<>>
            \/ GuardAnswer("n")
       /\ (pc = "connect" /\ pc' = "tofu_prompt") =>
            UNCHANGED <<gi, active, active_cert_domains>>
      ]_vars

\* A persistent identity shown to one host is about to be attached to a
\* connection to another host, on the restart after a redirect: the user
\* answered n at the guard.
C32_Witness ==
    /\ pc = "connect"
    /\ redirects > 0
    /\ active # NoIdent
    /\ active_cert_domains # <<>>
    /\ Host(gi.url) \notin Range(active_cert_domains)

\* rows of the hostname of connection p, at any address
RowsOfHost(d, p) == {i \in 1..Len(d) : d[i].hostname = p.host}

\* C33: once a certificate is pinned for a hostname, a connection to the
\* hostname presenting a fingerprint recorded for it at no address is not
\* accepted by _validate_cert without a prompt (the request is not sent in
\* the step that connects).
C33_PinnedPerHost ==
    [][(Connected /\ RowsOfHost(db, peer') # {}
          /\ \A i \in RowsOfHost(db, peer') : db[i].fingerprint # peer'.fingerprint)
       => pc' # "wait"]_vars

\* C33 as the code has it: the pin is per (hostname, address).  A connection
\* to a pair that has rows, none with the presented fingerprint, is not
\* accepted without a prompt; a connection is accepted without a prompt only
\* when its pair has no row or has a row with the presented fingerprint,
\* and then the store holds the row of (hostname, address, fingerprint).
C33_PinnedPerPair ==
    /\ [][(Connected /\ RowsOf(db, peer') # {} /\ Pinned(db, peer') = {})
          => pc' # "wait"]_vars
    /\ [][(Connected /\ pc' = "wait")
          => /\ RowsOf(db, peer') = {} \/ Pinned(db, peer') # {}
             /\ Pinned(db', peer') # {}]_vars

\* The request was sent on a connection to a second address of a hostname,
\* presenting a fingerprint other than the one pinned at the first address;
\* both rows are first contacts.
C33_Witness ==
    /\ pc = "wait"
    /\ Len(db) = 2
    /\ db[1].hostname = db[2].hostname
    /\ db[1].address # db[2].address
    /\ db[1].fingerprint # db[2].fingerprint
    /\ peer.address = db[2].address
    /\ peer.fingerprint = db[2].fingerprint
    /\ db[2].count = 1

\* C34: the trust store never holds two rows with the same hostname,
\* address and fingerprint, whatever connections were made and whatever the
\* user answered at the mismatch prompts.
C34_NoDuplicateRows ==
    \A i, j \in 1..Len(db) :
        (/\ db[i].hostname = db[j].hostname
         /\ db[i].address = db[j].address
         /\ db[i].fingerprint = db[j].fingerprint) => i = j

\* The store holds two rows of one (hostname, address) pair (a mismatch was
\* accepted), and the certificate of the first was presented again since.
C34_Witness ==
    /\ Len(db) >= 2
    /\ db[1].count = 2
    /\ db[1].last_seen > db[1].first_seen
    /\ \E i, j \in 1..Len(db) :
          /\ i # j
          /\ db[i].hostname = db[j].hostname
          /\ db[i].address = db[j].address

\* C35: _deactivate_client_cert always completes: whether it is called by
\* the certificate menu or by the cross-domain guard, no exception leaves
\* it, and afterwards no identity is active, the list of hosts the identity
\* was shown to is empty and the transient flag is cleared.
C35_DeactivateCompletes ==
    [][(do_cert_deactivate \/ GuardAnswer("y"))
       => /\ pc' # "crashed"
          /\ (pc = "guard_prompt" => pc' # "idle")
          /\ active' = NoIdent
          /\ active_cert_domains' = <<>>
          /\ ~active_is_transient']_vars

\* The certificate menu deactivated a transient identity that was sent to
\* one host on two requests: the second pop of the host raised KeyError,
\* the identity is still active and its files are gone.
C35_Witness ==
    /\ pc = "crashed"
    /\ active # NoIdent
    /\ active_is_transient
    /\ active \notin cert_disk
    /\ \E i, j \in 1..Len(active_cert_domains) :
          i < j /\ active_cert_domains[i] = active_cert_domains[j]

\* C36: the history cursor is always valid: hist_index is 0 while the
\* history is empty and a position of the history otherwise (0-based),
\* after any visits, reloads, back and forward commands, whether their
\* fetches succeed or fail.
C36_CursorValid ==
    IF history = <<>> THEN hist_index = 0
    ELSE 0 <= hist_index /\ hist_index < Len(history)

\* Two pages were visited and the fetch of a back command failed: the cursor
\* is on the first entry.
C36_Witness ==
    /\ pc = "idle"
    /\ outcome = "error"
    /\ Len(history) = 2
    /\ hist_index = 0
    /\ at_call.open
    /\ ~at_call.update_hist

\* C37: do_back and do_forward move the history cursor only if the
\* navigation succeeds: when the command is over and its fetch has failed
\* or was aborted, the cursor is where it was when the command began.
C37_CursorOnFailure ==
    (pc = "idle" /\ at_call.open /\ ~at_call.update_hist)
        => hist_index = at_call.cursor

\* The fetch of a forward command failed with the cursor on the first of two
\* entries: the cursor is on the second.
C37_Witness ==
    /\ pc = "idle"
    /\ outcome \in {"error", "abort"}
    /\ at_call.open
    /\ ~at_call.update_hist
    /\ Len(history) = 2
    /\ at_call.cursor = 0
    /\ hist_index = 1

\* C38: temporary files of cached responses never leak: with the cache on,
\* every temporary file on disk is the file of a cache entry (a replaced
\* entry's file is unlinked like a removed entry's).
C38_NoLeak ==
    options.cache => files \subseteq {cache[u].filename : u \in DOMAIN cache}

\* A reload replaced the cache entry of the current url: the entry names the
\* new file and the file it named before is still on disk.
C38_Witness ==
    /\ pc = "idle"
    /\ outcome = "ok"
    /\ options.cache
    /\ last_cache_op.op = "add"
    /\ last_cache_op.url \in DOMAIN cache
    /\ cache[last_cache_op.url].filename = tmp_filename
    /\ \E f \in files :
          /\ f < tmp_filename
          /\ f \notin {cache[u].filename : u \in DOMAIN cache}

\* C39: after every successful fetch, one served from the cache included,
\* tmp_filename names the raw-response file of the resource recorded as
\* current: while the url of self.gi has a cache entry, tmp_filename is the
\* entry's file.
C39_TmpFileCurrent ==
    (/\ pc = "idle"
     /\ outcome \in {"ok", "cached"}
     /\ self_gi.url \in DOMAIN cache)
        => tmp_filename = cache[self_gi.url].filename

\* The current resource was served from the cache, and tmp_filename names
\* the file of another cached resource, the one fetched last over the network.
C39_Witness ==
    /\ pc = "idle"
    /\ outcome = "cached"
    /\ self_gi.url \in DOMAIN cache
    /\ tmp_filename # cache[self_gi.url].filename
    /\ \E u \in DOMAIN cache : u # self_gi.url /\ cache[u].filename = tmp_filename

\* C40: the slot of the active identity in the client-certificate map is
\* always there and is never taken for the entry of a host: the map has its
\* key "active" in every state, and the re-activation offer is made only for
\* a host that has an entry of its own.
C40_SlotKept ==
    /\ active # Missing
    /\ pc = "offer_prompt" => Host(gi.url) \in DOMAIN client_certs

\* No identity was active, gemini://active/ was fetched and the user
\* declined the offer: the slot was popped and the fetch failed with
\* KeyError.
C40_Witness ==
    /\ pc = "idle"
    /\ outcome = "error"
    /\ active = Missing
    /\ client_certs = EmptyMap
    /\ history = <<>>

====
